---- MODULE Spec2Model ----
(***************************************************************************)
(* Flight-plan generation of Droner (src/utils/flightPlanGenerator.ts and  *)
(* src/utils/geometry.ts) as a state machine.                              *)
(*                                                                         *)
(* Fixed-point conventions.  The program computes in IEEE doubles; the     *)
(* model computes in integers:                                             *)
(*   - lengths and planar coordinates are in decimetres (0.1 m); a         *)
(*     Coordinate is [lat |-> y, lng |-> x] on a local tangent plane with  *)
(*     lat growing to the north and lng to the east;                       *)
(*   - times are in milliseconds (the program's minutes * 60000);          *)
(*   - GSD is in tenths of a centimetre per pixel;                         *)
(*   - a quotient is rounded toward zero where the program keeps a         *)
(*     fraction.                                                           *)
(* Headings are restricted to the four axis headings 0, 90, 180, 270, for  *)
(* which calculateOffsetPoint is a translation along an axis.              *)
(***************************************************************************)
EXTENDS Integers, Sequences, FiniteSets, TLC

-----------------------------------------------------------------------------
(* Arithmetic helpers *)

Max(a, b) == IF a >= b THEN a ELSE b

Min(a, b) == IF a <= b THEN a ELSE b

Abs(a) == IF a < 0 THEN -a ELSE a

\* a / b rounded toward zero, b > 0
Div(a, b) == IF a >= 0 THEN a \div b ELSE -((-a) \div b)

\* a / b rounded toward zero, b # 0
Frac(a, b) == IF b > 0 THEN Div(a, b) ELSE Div(-a, -b)

\* Math.ceil(a / b) for a >= 0, b > 0
CeilDiv(a, b) == (a + b - 1) \div b

RECURSIVE SqrtIter(_, _, _)
\* largest r in lo..hi with r * r <= n (bisection)
SqrtIter(n, lo, hi) ==
  IF lo >= hi THEN lo
  ELSE LET mid == (lo + hi + 1) \div 2
       IN IF mid * mid <= n THEN SqrtIter(n, mid, hi) ELSE SqrtIter(n, lo, mid - 1)

\* Math.sqrt rounded down; arguments stay below 46340^2
Sqrt(n) == SqrtIter(n, 0, 46340)

RECURSIVE SumRange(_, _, _)
\* s[lo] + ... + s[hi]
SumRange(s, lo, hi) ==
  IF lo > hi THEN 0
  ELSE IF lo = hi THEN s[lo]
  ELSE LET mid == (lo + hi) \div 2
       IN SumRange(s, lo, mid) + SumRange(s, mid + 1, hi)

SumSeq(s) == SumRange(s, 1, Len(s))

\* the sequence of the elements of a function on 1..n, each evaluated once
Tuple(f) == f \o << >>

Reverse(s) == Tuple([i \in 1..Len(s) |-> s[Len(s) + 1 - i]])

Last(s) == s[Len(s)]

-----------------------------------------------------------------------------
(* geometry.ts *)

Coord(y, x) == [lat |-> y, lng |-> x]

\* the value a NaN coordinate takes in the model (0/0 in generateWaypointsAlongLine)
NaNCoord == [lat |-> -99999999, lng |-> -99999999]

IsNaN(p) == p = NaNCoord

\* haversine distance, on the tangent plane: Euclidean distance rounded down
calculateDistance(coord1, coord2) ==
  LET dLat == coord2.lat - coord1.lat
      dLng == coord2.lng - coord1.lng
  IN IF dLng = 0 THEN Abs(dLat)
     ELSE IF dLat = 0 THEN Abs(dLng)
     ELSE Sqrt(dLat * dLat + dLng * dLng)

calculateBounds(coordinates) ==
  LET lats == {coordinates[i].lat : i \in 1..Len(coordinates)}
      lngs == {coordinates[i].lng : i \in 1..Len(coordinates)}
  IN [north |-> CHOOSE v \in lats : \A w \in lats : w <= v,
      south |-> CHOOSE v \in lats : \A w \in lats : w >= v,
      east  |-> CHOOSE v \in lngs : \A w \in lngs : w <= v,
      west  |-> CHOOSE v \in lngs : \A w \in lngs : w >= v]

\* gsd in tenths of a cm/px, result in dm: gsd/100 m * px * (1 - overlap/100)
calculateLineSpacing(gsd, imageWidthPx, sideOverlap) ==
  LET footprintWidth == Div(gsd * imageWidthPx, 100)
  IN Div(footprintWidth * (100 - sideOverlap), 100)

calculatePhotoInterval(gsd, imageHeightPx, frontOverlap) ==
  LET footprintHeight == Div(gsd * imageHeightPx, 100)
  IN Div(footprintHeight * (100 - frontOverlap), 100)

\* Cohen-Sutherland region codes as sets of sides (the code's bit masks)
computeOutCode(x, y, west, east, south, north) ==
  (IF x < west THEN {"LEFT"} ELSE IF x > east THEN {"RIGHT"} ELSE {})
  \cup (IF y < south THEN {"BOTTOM"} ELSE IF y > north THEN {"TOP"} ELSE {})

RECURSIVE clipLoop(_, _, _, _, _)
\* the while (true) loop of cohenSutherlandClip; << >> (null) when rejected, else <<segment>>
clipLoop(x0, y0, x1, y1, b) ==
  LET outcode0 == computeOutCode(x0, y0, b.west, b.east, b.south, b.north)
      outcode1 == computeOutCode(x1, y1, b.west, b.east, b.south, b.north)
  IN IF outcode0 \cup outcode1 = {} THEN <<[start |-> Coord(y0, x0), end |-> Coord(y1, x1)]>>
     ELSE IF outcode0 \cap outcode1 # {} THEN << >>
     ELSE LET outcodeOut == IF outcode0 # {} THEN outcode0 ELSE outcode1
              dx == x1 - x0
              dy == y1 - y0
              pt == IF "TOP" \in outcodeOut
                      THEN Coord(b.north, x0 + Frac(dx * (b.north - y0), dy))
                    ELSE IF "BOTTOM" \in outcodeOut
                      THEN Coord(b.south, x0 + Frac(dx * (b.south - y0), dy))
                    ELSE IF "RIGHT" \in outcodeOut
                      THEN Coord(y0 + Frac(dy * (b.east - x0), dx), b.east)
                    ELSE Coord(y0 + Frac(dy * (b.west - x0), dx), b.west)
          IN IF outcodeOut = outcode0
               THEN clipLoop(pt.lng, pt.lat, x1, y1, b)
               ELSE clipLoop(x0, y0, pt.lng, pt.lat, b)

cohenSutherlandClip(start, end, bounds) ==
  clipLoop(start.lng, start.lat, end.lng, end.lat, bounds)

\* one edge (ring[j], ring[i]) of the ray cast: pt.lng < (xj-xi)*(pt.lat-yi)/(yj-yi) + xi,
\* decided exactly by cross-multiplication (yj # yi whenever the first conjunct holds)
edgeIntersects(pt, pi, pj) ==
  /\ (pi.lat > pt.lat) # (pj.lat > pt.lat)
  /\ IF pj.lat - pi.lat > 0
       THEN (pt.lng - pi.lng) * (pj.lat - pi.lat) < (pj.lng - pi.lng) * (pt.lat - pi.lat)
       ELSE (pt.lng - pi.lng) * (pj.lat - pi.lat) > (pj.lng - pi.lng) * (pt.lat - pi.lat)

isPointInRing(pt, ring) ==
  IF IsNaN(pt) THEN FALSE
  ELSE LET n == Len(ring)
           crossings == {i \in 1..n :
                           edgeIntersects(pt, ring[i], ring[IF i = 1 THEN n ELSE i - 1])}
       IN Cardinality(crossings) % 2 = 1

isPointInPolygonRings(pt, rings) ==
  IF Len(rings) = 0 THEN FALSE
  ELSE IF ~isPointInRing(pt, rings[1]) THEN FALSE
  ELSE \A r \in 2..Len(rings) : ~isPointInRing(pt, rings[r])

\* destination point; bearing is one of 0, 90, 180, 270, distance may be negative
calculateOffsetPoint(point, bearing, distance) ==
  CASE bearing = 0   -> Coord(point.lat + distance, point.lng)
    [] bearing = 90  -> Coord(point.lat, point.lng + distance)
    [] bearing = 180 -> Coord(point.lat - distance, point.lng)
    [] bearing = 270 -> Coord(point.lat, point.lng - distance)

generateWaypointsAlongLine(start, end, spacing) ==
  LET distance == calculateDistance(start, end)
      numWaypoints == CeilDiv(distance, spacing) + 1
  IN Tuple([i \in 1..numWaypoints |->
              IF numWaypoints = 1 THEN NaNCoord
              ELSE Coord(start.lat + Div((end.lat - start.lat) * (i - 1), numWaypoints - 1),
                         start.lng + Div((end.lng - start.lng) * (i - 1), numWaypoints - 1))])

\* splitInterior without the interior test: the whole waypoint list kept as one line
splitInteriorKeepAll(waypoints, inside) ==
  IF Len(waypoints) > 1 THEN <<waypoints>> ELSE << >>

\* one iteration of for (let w = 0; w < waypoints.length; w++), on the loop's variables
\* [w, segments, current] (w counted from 1)
waypointStep(state, waypoints, inside) ==
  IF inside[state.w]
    THEN [w |-> state.w + 1, segments |-> state.segments,
          current |-> Append(state.current, waypoints[state.w])]
    ELSE [w |-> state.w + 1,
          segments |-> IF Len(state.current) > 1 THEN Append(state.segments, state.current)
                       ELSE state.segments,
          current |-> << >>]

RECURSIVE waypointLoop(_, _, _, _)
\* the iterations of the waypoint loop from state.w up to waypoint limit, in order (the
\* first half of them, then the rest)
waypointLoop(limit, waypoints, inside, state) ==
  IF state.w > limit THEN state
  ELSE IF state.w = limit THEN waypointStep(state, waypoints, inside)
  ELSE waypointLoop(limit, waypoints, inside,
                    waypointLoop(Div(state.w + limit, 2), waypoints, inside, state))

\* the waypoint loop and the push after it: the segments of the waypoints classified
\* by inside
splitInterior(waypoints, inside) ==
  LET end == waypointLoop(Len(waypoints), waypoints, inside,
                          [w |-> 1, segments |-> << >>, current |-> << >>])
  IN IF Len(end.current) > 1 THEN Append(end.segments, end.current) ELSE end.segments

\* 5 m between waypoints at most
WaypointSpacingMax == 50

\* 1 m, the least line spacing
MinSpacing == 10

\* coverageWidth / 50: at most 50 lines across the area
MaxLinesAcross == 50

\* maxLines of generateFlightLinesClippedByAOI
MaxLinesClipped == 50

\* A Polygon is [coordinates |-> <<ring, ...>>, bounds |-> [north, south, east, west]]
\* line i of the line loop, clipped to the bounds of the area: << >> or <<[start, end]>>
clippedLineAt(i, numLines, area, heading, coverageWidth) ==
  LET b == area.bounds
      perpHeading == (heading + 90) % 360
      offset == Div((2 * i - (numLines - 1)) * coverageWidth, 2 * Max(1, numLines - 1))
      centerPoint == Coord(Div(b.north + b.south, 2), Div(b.east + b.west, 2))
      midPoint == calculateOffsetPoint(centerPoint, perpHeading, offset)
      baseLineLengthMeters ==
        IF heading = 0 \/ heading = 180
          THEN calculateDistance(Coord(b.north, b.west), Coord(b.south, b.west))
          ELSE calculateDistance(Coord(b.north, b.west), Coord(b.north, b.east))
      lineLengthMeters == baseLineLengthMeters + Div(coverageWidth * 2, 10)
      halfLength == Div(lineLengthMeters, 2)
  IN cohenSutherlandClip(calculateOffsetPoint(midPoint, (heading + 180) % 360, halfLength),
                         calculateOffsetPoint(midPoint, heading, halfLength), b)

\* the segments of the waypoints that are interior to the area and to the master AOI
interiorSegments(waypoints, area, masterAOI) ==
  splitInterior(waypoints,
                Tuple([w \in 1..Len(waypoints) |->
                         /\ isPointInPolygonRings(waypoints[w], area.coordinates)
                         /\ isPointInPolygonRings(waypoints[w], masterAOI.coordinates)]))

\* the flight lines of one clipped line (none when the clip is null)
segmentsOfClipped(clipped, area, masterAOI, adjustedLineSpacing) ==
  IF clipped = << >> THEN << >>
  ELSE interiorSegments(generateWaypointsAlongLine(clipped[1].start, clipped[1].end,
                                                   Min(adjustedLineSpacing, WaypointSpacingMax)),
                        area, masterAOI)

RECURSIVE clippedLinesFrom(_, _, _, _, _, _, _)
\* iterations i .. numLines-1 of the line loop of generateFlightLinesClippedByAOI
clippedLinesFrom(i, numLines, area, masterAOI, heading, coverageWidth, adjustedLineSpacing) ==
  IF i >= numLines THEN << >>
  ELSE segmentsOfClipped(clippedLineAt(i, numLines, area, heading, coverageWidth),
                         area, masterAOI, adjustedLineSpacing)
         \o clippedLinesFrom(i + 1, numLines, area, masterAOI, heading, coverageWidth,
                             adjustedLineSpacing)

\* adjustedLineSpacing and numLines for a coverage width, a line spacing and a cap
lineLayout(coverageWidth, lineSpacing, maxLines) ==
  LET minLineSpacing == Max(MinSpacing, Div(coverageWidth, MaxLinesAcross))
      adjustedLineSpacing == Max(lineSpacing, minLineSpacing)
      required == CeilDiv(coverageWidth, adjustedLineSpacing) + 1
  IN [coverageWidth |-> coverageWidth, adjustedLineSpacing |-> adjustedLineSpacing,
      numLines |-> IF required > maxLines THEN maxLines ELSE required]

\* coverageWidth, adjustedLineSpacing and numLines of generateFlightLinesClippedByAOI
clippedLayout(area, lineSpacing) ==
  LET b == area.bounds
  IN lineLayout(Max(calculateDistance(Coord(b.north, b.west), Coord(b.north, b.east)),
                    calculateDistance(Coord(b.north, b.west), Coord(b.south, b.west))),
                lineSpacing, MaxLinesClipped)

\* the line loop for a layout
linesOfLayout(layout, area, masterAOI, heading) ==
  clippedLinesFrom(0, layout.numLines, area, masterAOI, heading, layout.coverageWidth,
                   layout.adjustedLineSpacing)

generateFlightLinesClippedByAOI(area, masterAOI, heading, lineSpacing) ==
  linesOfLayout(clippedLayout(area, lineSpacing), area, masterAOI, heading)

\* maxLines of generateFlightLines
MaxLines == 1000

\* the length of the polygon's bounding box along the heading
baseLineLengthOf(polygon, heading) ==
  LET b == polygon.bounds
  IN IF heading = 0 \/ heading = 180
       THEN calculateDistance(Coord(b.north, b.west), Coord(b.south, b.west))
       ELSE calculateDistance(Coord(b.north, b.west), Coord(b.north, b.east))

\* the waypoints of generateSingleCenterLine: along the line through the centre of the
\* bounding box, 20% longer than the box, not clipped
centerLineWaypoints(polygon, heading) ==
  LET b == polygon.bounds
      centerPoint == Coord(Div(b.north + b.south, 2), Div(b.east + b.west, 2))
      lineLengthMeters == baseLineLengthOf(polygon, heading)
      halfLength == Div(Div(lineLengthMeters * 12, 10), 2)
  IN generateWaypointsAlongLine(
       calculateOffsetPoint(centerPoint, (heading + 180) % 360, halfLength),
       calculateOffsetPoint(centerPoint, heading, halfLength),
       Min(WaypointSpacingMax, Div(lineLengthMeters, 10)))

\* generateSingleCenterLine: the interior waypoints of the centre line, filtered, are
\* one line
generateSingleCenterLine(polygon, heading) ==
  LET interiorWaypoints ==
        SelectSeq(centerLineWaypoints(polygon, heading),
                  LAMBDA wp : isPointInPolygonRings(wp, polygon.coordinates))
  IN IF Len(interiorWaypoints) >= 2 THEN <<interiorWaypoints>> ELSE << >>

\* coverageWidth of generateFlightLines: the extent of the bounding box perpendicular
\* to the heading
coverageWidthAcross(polygon, heading) ==
  LET b == polygon.bounds
  IN IF heading = 0 \/ heading = 180
       THEN calculateDistance(Coord(b.north, b.west), Coord(b.north, b.east))
       ELSE calculateDistance(Coord(b.north, b.west), Coord(b.south, b.west))

\* coverageWidth, adjustedLineSpacing and numLines of generateFlightLines below the
\* narrow-area branch
acrossLayout(polygon, heading, lineSpacing) ==
  lineLayout(coverageWidthAcross(polygon, heading), lineSpacing, MaxLines)

\* the line loop of generateFlightLines is that of generateFlightLinesClippedByAOI with
\* the polygon as area and as master AOI
generateFlightLines(polygon, heading, lineSpacing) ==
  IF lineSpacing >= coverageWidthAcross(polygon, heading)
    THEN generateSingleCenterLine(polygon, heading)
    ELSE linesOfLayout(acrossLayout(polygon, heading, lineSpacing), polygon, polygon, heading)

\* minRadius of calculateTurnRadius, 5 m
TurnRadiusMin == 50

\* maxRadius of calculateTurnRadius, 50 m
TurnRadiusMax == 500

\* 500 * sin(x), x in tenths of a degree in 0..1800 (Bhaskara's rational approximation,
\* exact at 0, 30, 90, 150 and 180 degrees)
sinHalf(x) == LET p == x * (1800 - x) IN Div(2000 * p, 4050000 - p)

\* 500 * sin(a) for any angle a in tenths of a degree
sin500(a) ==
  LET x == ((a % 3600) + 3600) % 3600
  IN IF x <= 1800 THEN sinHalf(x) ELSE -sinHalf(x - 1800)

cos500(a) == sin500(a + 900)

\* calculateOffsetPoint for a bearing in tenths of a degree (arc points of a U-turn)
offsetPointAt(point, bearing10, distance) ==
  Coord(point.lat + Div(distance * cos500(bearing10), 500),
        point.lng + Div(distance * sin500(bearing10), 500))

\* R = v^2 / (g tan 25 deg) with a 20% margin, kept within [5 m, 50 m]; speed in m/s
calculateTurnRadius(droneSpeed) ==
  LET turnRadius == Div(droneSpeed * droneSpeed * 100000, 45744)
      minRadius == Max(Div(turnRadius * 12, 10), TurnRadiusMin)
  IN Min(minRadius, TurnRadiusMax)

RECURSIVE arcPointsKeepAll(_, _, _, _, _, _, _)
\* arcPoints without the test that the arc waypoint is inside the polygon
arcPointsKeepAll(i, numArcPoints, turnCenter, turnDirection, heading, turnRadius, polygon) ==
  IF i > numArcPoints THEN << >>
  ELSE <<offsetPointAt(turnCenter,
                       heading * 10 + Div(i * 1800, numArcPoints) * turnDirection,
                       turnRadius)>>
         \o arcPointsKeepAll(i + 1, numArcPoints, turnCenter, turnDirection, heading,
                             turnRadius, polygon)

RECURSIVE arcPoints(_, _, _, _, _, _, _)
\* arc waypoints i .. numArcPoints of generateUTurn that are inside the polygon
arcPoints(i, numArcPoints, turnCenter, turnDirection, heading, turnRadius, polygon) ==
  IF i > numArcPoints THEN << >>
  ELSE LET angle10 == Div(i * 1800, numArcPoints) * turnDirection
           arcPoint == offsetPointAt(turnCenter, heading * 10 + angle10, turnRadius)
           rest == arcPoints(i + 1, numArcPoints, turnCenter, turnDirection, heading,
                             turnRadius, polygon)
       IN IF isPointInPolygonRings(arcPoint, polygon.coordinates)
            THEN <<arcPoint>> \o rest ELSE rest

generateUTurn(startPoint, endPoint, turnRadius, heading, polygon) ==
  LET perpHeading == (heading + 90) % 360
      leftTurnCenter == offsetPointAt(startPoint, perpHeading * 10, turnRadius)
      rightTurnCenter == offsetPointAt(startPoint, ((perpHeading + 180) % 360) * 10, turnRadius)
      leftInside == isPointInPolygonRings(leftTurnCenter, polygon.coordinates)
      rightInside == isPointInPolygonRings(rightTurnCenter, polygon.coordinates)
      left == IF leftInside /\ ~rightInside THEN TRUE
              ELSE IF rightInside /\ ~leftInside THEN FALSE
              ELSE calculateDistance(leftTurnCenter, endPoint)
                     < calculateDistance(rightTurnCenter, endPoint)
      turnCenter == IF left THEN leftTurnCenter ELSE rightTurnCenter
      turnDirection == IF left THEN 1 ELSE -1
      \* floor(PI * turnRadius / 10), turnRadius in dm
      numArcPoints == Max(6, Div(31416 * turnRadius, 1000000))
  IN <<startPoint>>
       \o arcPoints(1, numArcPoints, turnCenter, turnDirection, heading, turnRadius, polygon)
       \o <<endPoint>>

generateSmoothTurn(startPoint, endPoint, turnRadius, startHeading, endHeading, polygon) ==
  LET numPoints == 3
      directDistance == calculateDistance(startPoint, endPoint)
      perpHeading == (startHeading + 90) % 360
      point(i) ==
        LET linearPoint ==
              Coord(startPoint.lat + Div((endPoint.lat - startPoint.lat) * i, numPoints),
                    startPoint.lng + Div((endPoint.lng - startPoint.lng) * i, numPoints))
            \* sin(ratio * PI) * turnRadius * 0.3
            curveOffset == Div(sin500(Div(i * 1800, numPoints)) * Div(turnRadius * 3, 10), 500)
            curvedPoint == offsetPointAt(linearPoint, perpHeading * 10, curveOffset)
        IN IF isPointInPolygonRings(curvedPoint, polygon.coordinates)
             THEN curvedPoint ELSE linearPoint
  IN IF directDistance < turnRadius THEN <<startPoint, endPoint>>
     ELSE <<startPoint, point(1), point(2), endPoint>>

\* the heading change, brought into [-180, 180]
normalizeTurnAngle(turnAngle) ==
  LET m == ((turnAngle % 360) + 360) % 360
  IN IF turnAngle > 180 THEN (IF m = 0 THEN 0 ELSE IF m > 180 THEN m - 360 ELSE m)
     ELSE IF turnAngle < -180 THEN (IF m >= 180 THEN m - 360 ELSE m)
     ELSE turnAngle

\* generateOptimizedTurn that takes every turn between two lines for a U-turn
generateTurnAsUTurn(line1End, line2Start, line1Heading, line2Heading, turnRadius, polygon) ==
  generateUTurn(line1End, line2Start, turnRadius, line1Heading, polygon)

generateOptimizedTurn(line1End, line2Start, line1Heading, line2Heading, turnRadius, polygon) ==
  LET turnAngle == normalizeTurnAngle(line2Heading - line1Heading)
  IN IF Abs(turnAngle) < 30 THEN <<line1End, line2Start>>
     ELSE IF Abs(turnAngle) > 150
       THEN generateUTurn(line1End, line2Start, turnRadius, line1Heading, polygon)
     ELSE generateSmoothTurn(line1End, line2Start, turnRadius, line1Heading, line2Heading,
                             polygon)

-----------------------------------------------------------------------------
(* flightPlanGenerator.ts: missions and paths *)

\* the program's Infinity
Infinity == 2147483647

\* 2 s per photo
PhotoTime == 2000

\* 0.5 min per line
TurnTime == 30000

calculateLineLength(coordinates) ==
  SumSeq(Tuple([i \in 1..(Len(coordinates) - 1) |->
                  calculateDistance(coordinates[i], coordinates[i + 1])]))

\* minutes of one flight line, in ms: length/speed/60 + ceil(length/interval)*2/60 + 0.5
lineTime(length, droneSpeed, photoInterval) ==
  Div(length * 100, droneSpeed) + CeilDiv(length, photoInterval) * PhotoTime + TurnTime

RECURSIVE longestFrom(_, _, _)
\* the scan for the longest line: a later line replaces it only when strictly longer
longestFrom(flightLines, i, longest) ==
  IF i > Len(flightLines) THEN longest
  ELSE longestFrom(flightLines, i + 1,
                   IF flightLines[i].length > longest.length THEN flightLines[i] ELSE longest)

\* a Mission; id is the number in the program's `mission-${index}`
createMissionWithArea(flightLines, index, droneSpeed, photoInterval, areaRing) ==
  LET estimatedTime ==
        SumSeq(Tuple([i \in 1..Len(flightLines) |->
                        lineTime(flightLines[i].length, droneSpeed, photoInterval)]))
      estimatedPhotos ==
        SumSeq(Tuple([i \in 1..Len(flightLines) |-> CeilDiv(flightLines[i].length, photoInterval)]))
      longest == longestFrom(flightLines, 2, flightLines[1])
  IN [id |-> index,
      index |-> index,
      flightLines |-> flightLines,
      estimatedTime |-> estimatedTime,
      estimatedPhotos |-> estimatedPhotos,
      areaPolygon |-> areaRing,
      startPoint |-> longest.coordinates[1],
      endPoint |-> Last(longest.coordinates),
      pathSegments |-> << >>]

getLineStartPoint(line, reverse) ==
  IF reverse THEN Last(line.coordinates) ELSE line.coordinates[1]

getLineEndPoint(line, reverse) ==
  IF reverse THEN line.coordinates[1] ELSE Last(line.coordinates)

\* firstLeast that keeps the last of the least elements (<= for <)
lastLeast(dist) ==
  CHOOSE k \in 1..Len(dist) :
    /\ \A j \in 1..Len(dist) : dist[k] <= dist[j]
    /\ \A j \in (k + 1)..Len(dist) : dist[j] # dist[k]

\* the first position of a least element of a non-empty sequence of numbers (a loop that
\* replaces its choice only on a strictly smaller value)
firstLeast(dist) ==
  CHOOSE k \in 1..Len(dist) :
    /\ \A j \in 1..Len(dist) : dist[k] <= dist[j]
    /\ \A j \in 1..(k - 1) : dist[j] # dist[k]

\* the double loop over (line, direction): candidate k is line (k+1) \div 2 of
\* `remaining`, forward for odd k and reversed for even k
candidateDistances(currentPoint, remaining) ==
  Tuple([k \in 1..(2 * Len(remaining)) |->
           calculateDistance(currentPoint,
                             getLineStartPoint(remaining[(k + 1) \div 2], k % 2 = 0))])

candidateAt(dist, best) ==
  [index |-> (best + 1) \div 2, direction |-> best % 2 = 0, distance |-> dist[best]]

\* the first candidate at the least distance
leastCandidate(dist) == candidateAt(dist, firstLeast(dist))

nearestCandidate(currentPoint, remaining) ==
  leastCandidate(candidateDistances(currentPoint, remaining))

removeAt(s, i) == SubSeq(s, 1, i - 1) \o SubSeq(s, i + 1, Len(s))

RECURSIVE startCost(_, _, _, _)
\* the rest of the trial loop once the nearest candidate c of iteration i is found
startCostAfter(tempRemaining, c, i, totalDistance) ==
  startCost(removeAt(tempRemaining, c.index),
            getLineEndPoint(tempRemaining[c.index], c.direction),
            i + 1, totalDistance + c.distance)

\* the trial loop `for (i = 0; i < tempRemaining.length; i++)`: tempRemaining shrinks
\* by one line per iteration while i grows
startCost(tempRemaining, currentPoint, i, totalDistance) ==
  IF i >= Len(tempRemaining) THEN totalDistance
  ELSE startCostAfter(tempRemaining, nearestCandidate(currentPoint, tempRemaining), i,
                      totalDistance)

\* every line except those with the id of lines[k]
othersThan(lines, k) ==
  LET keep == {i \in 1..Len(lines) : lines[i].id # lines[k].id}
      RECURSIVE pick(_)
      pick(i) == IF i > Len(lines) THEN << >>
                 ELSE IF i \in keep THEN <<lines[i]>> \o pick(i + 1) ELSE pick(i + 1)
  IN pick(1)

\* the trial of every (startLine, startDirection): configuration c is line
\* (c+1) \div 2, forward for odd c
startCosts(lines) ==
  Tuple([c \in 1..(2 * Len(lines)) |->
           startCost(othersThan(lines, (c + 1) \div 2),
                     getLineEndPoint(lines[(c + 1) \div 2], c % 2 = 0), 0, 0)])

startAt(best) == [index |-> (best + 1) \div 2, direction |-> best % 2 = 0]

\* the first configuration of least total distance
bestStart(lines) == startAt(firstLeast(startCosts(lines)))

\* findIndexById that finds the first line whatever its id
findIndexFirst(lines, id) == 1

\* findIndex(line => line.id === id)
findIndexById(lines, id) ==
  CHOOSE i \in 1..Len(lines) :
    /\ lines[i].id = id
    /\ \A j \in 1..(i - 1) : lines[j].id # id

\* a line of the ordered list with its _proximityDirection
withDirection(line, direction) ==
  [line |-> line, hasDirection |-> TRUE, proximityDirection |-> direction]

RECURSIVE nearestNeighbour(_, _, _, _)
\* the rest of the while loop once the nearest candidate c is found
nearestNeighbourAfter(remaining, c, ordered) ==
  nearestNeighbour(removeAt(remaining, findIndexById(remaining, remaining[c.index].id)),
                   remaining[c.index], c.direction,
                   Append(ordered, withDirection(remaining[c.index], c.direction)))

\* the while (remaining.length > 0) loop of orderLinesByProximity
nearestNeighbour(remaining, currentLine, currentDirection, ordered) ==
  IF Len(remaining) = 0 THEN ordered
  ELSE nearestNeighbourAfter(remaining,
                             nearestCandidate(getLineEndPoint(currentLine, currentDirection),
                                              remaining),
                             ordered)

\* the lines ordered from the start s = [index, direction]
orderedFrom(lines, s) ==
  nearestNeighbour(removeAt(lines, findIndexById(lines, lines[s.index].id)),
                   lines[s.index], s.direction,
                   <<withDirection(lines[s.index], s.direction)>>)

\* ordered lines, each with its _proximityDirection (absent when hasDirection is FALSE)
orderLinesByProximity(lines, reverseFirstLine) ==
  IF Len(lines) <= 1
    THEN Tuple([i \in 1..Len(lines) |->
                  [line |-> lines[i], hasDirection |-> FALSE, proximityDirection |-> FALSE]])
  ELSE orderedFrom(lines, bestStart(lines))

\* avgSpacing when there are no samples, 10 m
DefaultAvgSpacing == 100

\* avgLineSpacing of a single line, 50 m
DefaultLineSpacing == 500

\* least connectorMaxGap of buildSerpentinePathOptimized, 50 m
MinGapOptimized == 500

\* whether line i of the ordered list is flown reversed
shouldReverse(ordered, i, reverseFirstLine) ==
  IF ordered[i].hasDirection THEN ordered[i].proximityDirection
  ELSE IF reverseFirstLine THEN (i - 1) % 2 = 0 ELSE (i - 1) % 2 = 1

\* three times the mean of the samples, 3 x 10 m when there is none
avgSpacing3Of(samples) ==
  IF Len(samples) > 0 THEN Div(3 * SumSeq(samples), Len(samples))
  ELSE 3 * DefaultAvgSpacing

\* Math.max(3 * avgSpacing, least): avgSpacing is the mean distance between the first
\* points of consecutive lines, 10 m when there is one line
connectorMaxGapOf(coords, least) ==
  Max(avgSpacing3Of(Tuple([i \in 1..(Len(coords) - 1) |->
                             calculateDistance(coords[i][1], coords[i + 1][1])])),
      least)

\* connectorOf with the straight connector drawn from nextStart back to currEnd
connectorOfBackwards(currEnd, nextStart, optimizedTurnWaypoints, hasPolygon, missionIndex, segIdx) ==
  [kind |-> "connector", coordinates |-> <<nextStart, currEnd>>,
   missionIndex |-> missionIndex, segmentIndex |-> segIdx]

\* the connector segment between two lines
connectorOf(currEnd, nextStart, optimizedTurnWaypoints, hasPolygon, missionIndex, segIdx) ==
  [kind |-> "connector",
   coordinates |-> IF hasPolygon /\ Len(optimizedTurnWaypoints) > 2
                     THEN optimizedTurnWaypoints ELSE <<currEnd, nextStart>>,
   missionIndex |-> missionIndex, segmentIndex |-> segIdx]

\* the coordinates of line i of the ordered list as flown
flownCoordinates(ordered, i, reverseFirstLine) ==
  IF shouldReverse(ordered, i, reverseFirstLine)
    THEN Reverse(ordered[i].line.coordinates) ELSE ordered[i].line.coordinates

\* the start of line i of the ordered list as flown
flownStart(ordered, i, reverseFirstLine) ==
  IF shouldReverse(ordered, i, reverseFirstLine)
    THEN Last(ordered[i].line.coordinates) ELSE ordered[i].line.coordinates[1]

RECURSIVE optimizedSegments(_, _, _, _, _, _, _, _, _)
\* iteration i of the segment loop for a line that has a next line: the line segment,
\* the connector when the gap allows one, and the segments of the later iterations
segmentsWithNext(ordered, i, segIdx, missionIndex, reverseFirstLine, turnRadius, connectorMaxGap, hasPolygon, polygon, lineSeg, currEnd, nextStart) ==
  IF calculateDistance(currEnd, nextStart) <= connectorMaxGap
    THEN <<lineSeg,
           connectorOf(currEnd, nextStart,
                       generateOptimizedTurn(currEnd, nextStart, ordered[i].line.heading,
                                             ordered[i + 1].line.heading, turnRadius, polygon),
                       hasPolygon, missionIndex, segIdx + 1)>>
           \o optimizedSegments(ordered, i + 1, segIdx + 2, missionIndex, reverseFirstLine,
                                turnRadius, connectorMaxGap, hasPolygon, polygon)
    ELSE <<lineSeg>>
           \o optimizedSegments(ordered, i + 1, segIdx + 1, missionIndex, reverseFirstLine,
                                turnRadius, connectorMaxGap, hasPolygon, polygon)

\* iteration i of the segment loop, coords the coordinates of line i as flown
segmentsOfLine(ordered, i, segIdx, missionIndex, reverseFirstLine, turnRadius, connectorMaxGap, hasPolygon, polygon, coords) ==
  IF i = Len(ordered)
    THEN <<[kind |-> "line", coordinates |-> coords,
            missionIndex |-> missionIndex, segmentIndex |-> segIdx]>>
    ELSE segmentsWithNext(ordered, i, segIdx, missionIndex, reverseFirstLine, turnRadius,
                          connectorMaxGap, hasPolygon, polygon,
                          [kind |-> "line", coordinates |-> coords,
                           missionIndex |-> missionIndex, segmentIndex |-> segIdx],
                          Last(coords), flownStart(ordered, i + 1, reverseFirstLine))

\* iterations i .. of the segment loop of buildSerpentinePathOptimized
optimizedSegments(ordered, i, segIdx, missionIndex, reverseFirstLine, turnRadius, connectorMaxGap, hasPolygon, polygon) ==
  IF i > Len(ordered) THEN << >>
  ELSE segmentsOfLine(ordered, i, segIdx, missionIndex, reverseFirstLine, turnRadius,
                      connectorMaxGap, hasPolygon, polygon,
                      flownCoordinates(ordered, i, reverseFirstLine))

\* the mean distance from the end of a line to the start of the line before it, 50 m
\* for a single line
avgLineSpacingOf(lines) ==
  IF Len(lines) > 1
    THEN Div(SumSeq(Tuple([i \in 1..(Len(lines) - 1) |->
                             calculateDistance(Last(lines[i + 1].coordinates),
                                               lines[i].coordinates[1])])),
             Len(lines) - 1)
    ELSE DefaultLineSpacing

\* the path of the ordered lines
pathOfOrdered(ordered, missionIndex, reverseFirstLine, turnRadius, hasPolygon, polygon) ==
  optimizedSegments(ordered, 1, 0, missionIndex, reverseFirstLine, turnRadius,
                    connectorMaxGapOf(Tuple([i \in 1..Len(ordered) |->
                                               ordered[i].line.coordinates]),
                                      MinGapOptimized),
                    hasPolygon, polygon)

\* hasPolygon is FALSE for the call that passes no polygon (polygon is then unused)
buildSerpentinePathOptimized(lines, missionIndex, reverseFirstLine, droneSpeed, hasPolygon, polygon) ==
  IF Len(lines) = 0 THEN << >>
  ELSE pathOfOrdered(orderLinesByProximity(lines, reverseFirstLine), missionIndex,
                     reverseFirstLine,
                     Min(calculateTurnRadius(droneSpeed), Div(avgLineSpacingOf(lines) * 8, 10)),
                     hasPolygon, polygon)

\* the mission with start/end point taken from its path, when it has one
withPathEnds(mission) ==
  IF Len(mission.pathSegments) > 0
    THEN [mission EXCEPT !.startPoint = mission.pathSegments[1].coordinates[1],
                         !.endPoint = Last(Last(mission.pathSegments).coordinates)]
    ELSE mission

-----------------------------------------------------------------------------
(* flightPlanGenerator.ts: partitionAOIIntoPolygonMissions *)

\* iterations of the binary search
SearchSteps == 20

\* 2 km: wider areas are partitioned by the forced width
VeryLargeWidth == 20000

\* 500 m: the bound between small and medium areas
MediumWidth == 5000

\* 800 m: the strip width aimed at in very large areas
TargetStripWidth == 8000

\* the dimensions of the bounding box, by heading
widthEW(polygon) ==
  calculateDistance(Coord(polygon.bounds.north, polygon.bounds.west),
                    Coord(polygon.bounds.north, polygon.bounds.east))

heightNS(polygon) ==
  calculateDistance(Coord(polygon.bounds.north, polygon.bounds.west),
                    Coord(polygon.bounds.south, polygon.bounds.west))

perpendicularWidthOf(polygon, heading) ==
  IF heading = 0 \/ heading = 180 THEN widthEW(polygon) ELSE heightNS(polygon)

alongHeadingLengthOf(polygon, heading) ==
  IF heading = 0 \/ heading = 180 THEN heightNS(polygon) ELSE widthEW(polygon)

\* maxBatteryTime * 0.9, minutes to ms
batteryTimeOf(maxBatteryTime) == maxBatteryTime * 54000

\* numLines of estimateTimeForStrip, for a line spacing above 0
numLinesForStrip(stripWidthM, lineSpacing) == Max(1, CeilDiv(stripWidthM, lineSpacing) + 1)

\* timeMin of estimateTimeForStrip, in ms. With a line spacing of 0 the quotient
\* stripWidthM / lineSpacing is Infinity or NaN and so is timeMin, which is then not
\* <= batteryTime: Infinity stands for both
estimateTimeForStrip(stripWidthM, lineSpacing, alongHeadingLength, droneSpeed, photoInterval) ==
  IF lineSpacing = 0 THEN Infinity
  ELSE LET numLines == numLinesForStrip(stripWidthM, lineSpacing)
           totalLength == numLines * alongHeadingLength
           flightTime == Div(totalLength * 100, droneSpeed)
           photoCount == CeilDiv(totalLength, photoInterval)
       IN flightTime + photoCount * PhotoTime + numLines * TurnTime

\* Math.max(lineSpacing, (Math.floor(batteryTime / 0.5) - 1) * lineSpacing)
maxStripWidthOf(batteryTime, lineSpacing) ==
  Max(lineSpacing, (Div(batteryTime, TurnTime) - 1) * lineSpacing)

RECURSIVE bisectWidth(_, _, _, _, _, _, _, _, _)
\* the 20 iterations of the binary search, from iteration i on
bisectWidth(i, lo, hi, best, batteryTime, lineSpacing, alongHeadingLength, droneSpeed, photoInterval) ==
  IF i >= SearchSteps THEN best
  ELSE LET mid == Div(lo + hi, 2)
       IN IF estimateTimeForStrip(mid, lineSpacing, alongHeadingLength, droneSpeed,
                                  photoInterval) <= batteryTime
            THEN bisectWidth(i + 1, mid, hi, mid, batteryTime, lineSpacing,
                             alongHeadingLength, droneSpeed, photoInterval)
            ELSE bisectWidth(i + 1, lo, mid, best, batteryTime, lineSpacing,
                             alongHeadingLength, droneSpeed, photoInterval)

\* findStripWidthForBattery that returns the whole remaining width
wholeWidthForBattery(maxWidthM, batteryTime, lineSpacing, alongHeadingLength, droneSpeed, photoInterval) ==
  maxWidthM

findStripWidthForBattery(maxWidthM, batteryTime, lineSpacing, alongHeadingLength, droneSpeed, photoInterval) ==
  LET maxStripWidth == maxStripWidthOf(batteryTime, lineSpacing)
      fits(w) == estimateTimeForStrip(w, lineSpacing, alongHeadingLength, droneSpeed,
                                      photoInterval) <= batteryTime
      targetMissions == Max(3, CeilDiv(maxWidthM, TargetStripWidth))
      forcedWidth == Max(lineSpacing * 2, Div(maxWidthM, targetMissions))
      halfWidth == Div(maxWidthM, 2)
      lo == Max(lineSpacing, Min(lineSpacing * 2, Div(maxWidthM, 10)))
      hi == Max(lo, Min(maxWidthM, maxStripWidth))
  IN IF maxWidthM > VeryLargeWidth THEN Min(forcedWidth, maxStripWidth)
     ELSE IF maxWidthM > MediumWidth /\ fits(maxWidthM) THEN maxWidthM
     ELSE IF maxWidthM > MediumWidth /\ fits(halfWidth) THEN halfWidth
     ELSE IF maxWidthM <= MediumWidth /\ fits(maxWidthM) THEN maxWidthM
     ELSE Min(bisectWidth(0, lo, hi, lo, batteryTime, lineSpacing, alongHeadingLength,
                          droneSpeed, photoInterval),
              maxStripWidth)

\* the rectangular strip [offset, offset + width] of the bounding box, as a Polygon
stripPolygon(polygon, heading, perpendicularWidth, offsetFromWestOrSouth, widthForBattery) ==
  LET b == polygon.bounds
      \* edge0 + (edge1 - edge0) * proportion, the proportion being num / perpendicularWidth
      along(edge0, edge1, num) == edge0 + Div((edge1 - edge0) * num, perpendicularWidth)
      \* proportionEnd is capped at 1
      endNum == Min(perpendicularWidth, offsetFromWestOrSouth + widthForBattery)
  IN IF heading = 0 \/ heading = 180
       THEN LET lngStart == along(b.west, b.east, offsetFromWestOrSouth)
                lngEnd == along(b.west, b.east, endNum)
            IN [coordinates |-> << <<Coord(b.north, lngStart), Coord(b.north, lngEnd),
                                     Coord(b.south, lngEnd), Coord(b.south, lngStart),
                                     Coord(b.north, lngStart)>> >>,
                bounds |-> [north |-> b.north, south |-> b.south,
                            east |-> lngEnd, west |-> lngStart]]
       ELSE LET latStart == along(b.south, b.north, offsetFromWestOrSouth)
                latEnd == along(b.south, b.north, endNum)
            IN [coordinates |-> << <<Coord(latEnd, b.east), Coord(latEnd, b.west),
                                     Coord(latStart, b.west), Coord(latStart, b.east),
                                     Coord(latEnd, b.east)>> >>,
                bounds |-> [north |-> latEnd, south |-> latStart,
                            east |-> b.east, west |-> b.west]]

\* the FlightLine records of raw lines; id is the pair (owner, idx) of
\* `m${missionIdx}-line-${idx}`, owner -1 standing for `fallback-line-${idx}`
toFlightLines(rawLines, owner, heading, missionIdx) ==
  Tuple([idx \in 1..Len(rawLines) |->
           [id |-> <<owner, idx - 1>>,
            coordinates |-> rawLines[idx],
            heading |-> heading,
            length |-> calculateLineLength(rawLines[idx]),
            missionIndex |-> missionIdx,
            lineIndex |-> idx - 1]])

\* the fallback mission of the flight lines, with its path and the ends of the path
fallbackMissionOf(flightLines, polygon, droneSpeed, photoInterval) ==
  withPathEnds([createMissionWithArea(flightLines, 0, droneSpeed, photoInterval,
                                      polygon.coordinates[1])
                  EXCEPT !.pathSegments =
                    buildSerpentinePathOptimized(flightLines, 0, FALSE, droneSpeed, TRUE,
                                                 polygon)])

\* fallbackOfLines that gives up (null) whatever the raw lines
fallbackGivenUp(rawLines, polygon, heading, droneSpeed, photoInterval) == << >>

\* null (<< >>) when there are no raw lines
fallbackOfLines(rawLines, polygon, heading, droneSpeed, photoInterval) ==
  IF Len(rawLines) = 0 THEN << >>
  ELSE <<fallbackMissionOf(toFlightLines(rawLines, -1, heading, 0), polygon, droneSpeed,
                           photoInterval)>>

\* createFallbackMission: << >> stands for null
createFallbackMission(polygon, heading, lineSpacing, droneSpeed, photoInterval) ==
  fallbackOfLines(generateFlightLinesClippedByAOI(polygon, polygon, heading, lineSpacing),
                  polygon, heading, droneSpeed, photoInterval)

-----------------------------------------------------------------------------
(* flightPlanGenerator.ts: packMissionsByBattery *)

\* least connectorMaxGap of buildSerpentinePath, 20 m
MinGapSerpentine == 200

RECURSIVE insertByLineIndex(_, _)
\* line put after every line of the sorted list whose lineIndex is not greater
insertByLineIndex(sorted, line) ==
  IF sorted = << >> THEN <<line>>
  ELSE IF Head(sorted).lineIndex <= line.lineIndex
    THEN <<Head(sorted)>> \o insertByLineIndex(Tail(sorted), line)
  ELSE <<line>> \o sorted

RECURSIVE sortByLineIndex(_, _)
\* [...lines].sort((a, b) => a.lineIndex - b.lineIndex), a stable sort
sortByLineIndex(lines, n) ==
  IF n = 0 THEN << >> ELSE insertByLineIndex(sortByLineIndex(lines, n - 1), lines[n])

RECURSIVE serpentineSegments(_, _, _, _, _)
\* iterations i .. of the segment loop of buildSerpentinePath
serpentineSegments(ordered, i, segIdx, missionIndex, connectorMaxGap) ==
  IF i > Len(ordered) THEN << >>
  ELSE
    LET line == ordered[i]
        forward == (i - 1) % 2 = 0
        coords == IF forward THEN line.coordinates ELSE Reverse(line.coordinates)
        lineSeg == [kind |-> "line", coordinates |-> coords,
                    missionIndex |-> missionIndex, segmentIndex |-> segIdx]
    IN IF i = Len(ordered) THEN <<lineSeg>>
       ELSE
         LET next == ordered[i + 1]
             currEnd == Last(coords)
             nextStart == IF i % 2 = 0 THEN next.coordinates[1] ELSE Last(next.coordinates)
             gap == calculateDistance(currEnd, nextStart)
         IN IF gap <= connectorMaxGap
              THEN <<lineSeg,
                     [kind |-> "connector", coordinates |-> <<currEnd, nextStart>>,
                      missionIndex |-> missionIndex, segmentIndex |-> segIdx + 1]>>
                     \o serpentineSegments(ordered, i + 1, segIdx + 2, missionIndex,
                                           connectorMaxGap)
              ELSE <<lineSeg>>
                     \o serpentineSegments(ordered, i + 1, segIdx + 1, missionIndex,
                                           connectorMaxGap)

buildSerpentinePath(lines, missionIndex) ==
  IF Len(lines) = 0 THEN << >>
  ELSE LET ordered == sortByLineIndex(lines, Len(lines))
           connectorMaxGap ==
             connectorMaxGapOf(Tuple([i \in 1..Len(ordered) |-> ordered[i].coordinates]),
                               MinGapSerpentine)
       IN serpentineSegments(ordered, 1, 0, missionIndex, connectorMaxGap)

\* rectRingFromBounds of the bounds of both rings
mergedRingOf(ring1, ring2) ==
  LET rect(b) == <<Coord(b.north, b.west), Coord(b.north, b.east), Coord(b.south, b.east),
                   Coord(b.south, b.west), Coord(b.north, b.west)>>
  IN IF Len(ring1) > 0 /\ Len(ring2) > 0
       THEN LET b1 == calculateBounds(ring1)
                b2 == calculateBounds(ring2)
            IN rect([north |-> Max(b1.north, b2.north), south |-> Min(b1.south, b2.south),
                     east |-> Max(b1.east, b2.east), west |-> Min(b1.west, b2.west)])
     ELSE IF Len(ring1) > 0 THEN rect(calculateBounds(ring1))
     ELSE IF Len(ring2) > 0 THEN rect(calculateBounds(ring2))
     ELSE << >>

\* recompute that loses the first of the combined lines
recomputeWithoutFirst(lines, index, droneSpeed, photoInterval, areaRing) ==
  LET m == createMissionWithArea(Tail(lines), index, droneSpeed, photoInterval, areaRing)
  IN withPathEnds([m EXCEPT !.pathSegments = buildSerpentinePath(m.flightLines, m.index)])

\* recompute of packMissionsByBattery
recompute(lines, index, droneSpeed, photoInterval, areaRing) ==
  LET m == createMissionWithArea(lines, index, droneSpeed, photoInterval, areaRing)
  IN withPathEnds([m EXCEPT !.pathSegments = buildSerpentinePath(m.flightLines, m.index)])

\* mergesInto with the time already accumulated forgotten
mergesIntoIgnoringAcc(acc, m, effectiveBatteryTime) ==
  m.estimatedTime <= effectiveBatteryTime

\* whether mission m is merged into the accumulated mission acc
mergesInto(acc, m, effectiveBatteryTime) ==
  acc.estimatedTime + m.estimatedTime <= effectiveBatteryTime

\* acc as pushed to the result
flushed(acc, result) == [acc EXCEPT !.index = Len(result), !.id = Len(result)]

RECURSIVE packFrom(_, _, _, _, _, _, _, _)
\* the loop of packMissionsByBattery from mission i on; acc is <<mission>> or << >> (null)
packFrom(missions, i, acc, accIdx, result, effectiveBatteryTime, droneSpeed, photoInterval) ==
  IF i > Len(missions)
    THEN IF Len(acc) > 0 THEN Append(result, flushed(acc[1], result)) ELSE result
  ELSE LET m == missions[i]
       IN IF Len(acc) = 0
            THEN packFrom(missions, i + 1, <<m>>, Len(result), result, effectiveBatteryTime,
                          droneSpeed, photoInterval)
          ELSE IF mergesInto(acc[1], m, effectiveBatteryTime)
            THEN packFrom(missions, i + 1,
                          <<recompute(acc[1].flightLines \o m.flightLines, accIdx, droneSpeed,
                                      photoInterval,
                                      mergedRingOf(acc[1].areaPolygon, m.areaPolygon))>>,
                          accIdx, result, effectiveBatteryTime, droneSpeed, photoInterval)
          ELSE LET pushed == Append(result, flushed(acc[1], result))
               IN packFrom(missions, i + 1, <<m>>, Len(pushed), pushed, effectiveBatteryTime,
                           droneSpeed, photoInterval)

packMissionsByBattery(missions, maxBatteryTime, droneSpeed, photoInterval) ==
  IF Len(missions) = 0 THEN missions
  ELSE packFrom(missions, 1, << >>, 0, << >>, batteryTimeOf(maxBatteryTime), droneSpeed,
                photoInterval)

-----------------------------------------------------------------------------
(* flightPlanGenerator.ts: optimizeMissionChaining *)

\* the drone speed the chainer rebuilds paths with, m/s
DefaultDroneSpeed == 5

getEndPointForSerpentine(lines, reverseOrder, reverseFirstLine) ==
  IF Len(lines) = 0 THEN Coord(0, 0)
  ELSE LET orderedLines == IF reverseOrder THEN Reverse(lines) ELSE lines
           lastLine == Last(orderedLines)
           lastLineIndex == Len(orderedLines) - 1
           shouldReverseLast == IF reverseFirstLine THEN lastLineIndex % 2 = 0
                                ELSE lastLineIndex % 2 = 1
       IN IF shouldReverseLast THEN lastLine.coordinates[1] ELSE Last(lastLine.coordinates)

\* the four start/end configurations, in the order the program pushes them
getMissionStartEndOptions(mission) ==
  LET lines == mission.flightLines
  IN IF Len(lines) = 0 THEN << >>
     ELSE LET firstLine == lines[1]
              lastLine == Last(lines)
              option(startPoint, reverseOrder, reverseFirstLine) ==
                [startPoint |-> startPoint,
                 endPoint |-> getEndPointForSerpentine(lines, reverseOrder, reverseFirstLine),
                 reverseOrder |-> reverseOrder,
                 reverseFirstLine |-> reverseFirstLine]
          IN IF Len(firstLine.coordinates) > 0 /\ Len(lastLine.coordinates) > 0
               THEN <<option(firstLine.coordinates[1], FALSE, FALSE),
                      option(Last(firstLine.coordinates), FALSE, TRUE),
                      option(lastLine.coordinates[1], TRUE, FALSE),
                      option(Last(lastLine.coordinates), TRUE, TRUE)>>
               ELSE << >>

\* the distances of the pairs (fromOption, toOption) in the order of the double loop:
\* pair k is fromOptions[(k-1) \div nt + 1] with toOptions[(k-1) % nt + 1]
transitionDistances(fromOptions, toOptions) ==
  Tuple([k \in 1..(Len(fromOptions) * Len(toOptions)) |->
           calculateDistance(fromOptions[((k - 1) \div Len(toOptions)) + 1].endPoint,
                             toOptions[((k - 1) % Len(toOptions)) + 1].startPoint)])

\* the Transition of pair `best`
transitionAt(fromMission, toMission, fromOptions, toOptions, dist, best) ==
  [fromMissionIndex |-> fromMission.index, toMissionIndex |-> toMission.index,
   distance |-> dist[best],
   fromExitPoint |-> fromOptions[((best - 1) \div Len(toOptions)) + 1].endPoint,
   toEntryPoint |-> toOptions[((best - 1) % Len(toOptions)) + 1].startPoint]

\* the first pair of least distance, or distance Infinity when there is no pair
leastTransition(fromMission, toMission, fromOptions, toOptions, dist) ==
  IF Len(dist) = 0
    THEN [fromMissionIndex |-> fromMission.index, toMissionIndex |-> toMission.index,
          distance |-> Infinity, fromExitPoint |-> Coord(0, 0), toEntryPoint |-> Coord(0, 0)]
    ELSE transitionAt(fromMission, toMission, fromOptions, toOptions, dist, firstLeast(dist))

transitionBetween(fromMission, toMission, fromOptions, toOptions) ==
  leastTransition(fromMission, toMission, fromOptions, toOptions,
                  transitionDistances(fromOptions, toOptions))

findOptimalTransition(fromMission, toMission) ==
  transitionBetween(fromMission, toMission, getMissionStartEndOptions(fromMission),
                    getMissionStartEndOptions(toMission))

\* matrix[i][j], missions numbered from 1 (the program's i and j plus one)
calculateTransitionCostMatrix(missions) ==
  Tuple([i \in 1..Len(missions) |->
           Tuple([j \in 1..Len(missions) |->
                    IF i = j
                      THEN [fromMissionIndex |-> i - 1, toMissionIndex |-> j - 1, distance |-> 0,
                            fromExitPoint |-> Coord(0, 0), toEntryPoint |-> Coord(0, 0)]
                      ELSE findOptimalTransition(missions[i], missions[j])])])

RECURSIVE tourFrom(_, _, _)
\* the while (visited.size < numMissions) loop of solveTSPFromStart
tourFrom(costMatrix, order, currentMission) ==
  LET numMissions == Len(costMatrix)
      visited == {order[i] : i \in 1..Len(order)}
      unvisited == (1..numMissions) \ visited
      \* the first unvisited mission of least distance below Infinity
      candidates == {n \in unvisited : costMatrix[currentMission][n].distance < Infinity}
      nearestMission ==
        CHOOSE n \in candidates :
          \A o \in candidates :
             \/ costMatrix[currentMission][n].distance < costMatrix[currentMission][o].distance
             \/ /\ costMatrix[currentMission][n].distance = costMatrix[currentMission][o].distance
                /\ n <= o
  IN IF Cardinality(visited) >= numMissions \/ candidates = {} THEN order
     ELSE tourFrom(costMatrix, Append(order, nearestMission), nearestMission)

\* solveTSPFromStart with the loop left after its first step
solveTSPFromStartOneStep(costMatrix, startMission) ==
  LET order == tourFrom(costMatrix, <<startMission>>, startMission)
  IN SubSeq(order, 1, Min(2, Len(order)))

solveTSPFromStart(costMatrix, startMission) == tourFrom(costMatrix, <<startMission>>, startMission)

calculateTotalPathDistance(costMatrix, order) ==
  SumSeq(Tuple([i \in 1..(Len(order) - 1) |-> costMatrix[order[i]][order[i + 1]].distance]))

\* the first start whose tour has the least total (<<1>> for a single mission; << >> when
\* no total is below Infinity)
solveMissionOrderTSP(costMatrix) ==
  LET numMissions == Len(costMatrix)
      tour == Tuple([st \in 1..numMissions |-> solveTSPFromStart(costMatrix, st)])
      total == Tuple([st \in 1..numMissions |-> calculateTotalPathDistance(costMatrix, tour[st])])
      finite == {st \in 1..numMissions : total[st] < Infinity}
      bestStart0 == CHOOSE st \in finite :
                      \A o \in finite : total[st] < total[o] \/ (total[st] = total[o] /\ st <= o)
  IN IF numMissions <= 1 THEN <<1>>
     ELSE IF finite = {} THEN << >>
     ELSE tour[bestStart0]

rebuildMissionWithOptimalPath(mission, reverseOrder, reverseFirstLine) ==
  LET flightLines ==
        IF reverseOrder
          THEN LET rev == Reverse(mission.flightLines)
               IN Tuple([idx \in 1..Len(rev) |-> [rev[idx] EXCEPT !.lineIndex = idx - 1]])
          ELSE mission.flightLines
      newMission == [mission EXCEPT
                       !.flightLines = flightLines,
                       !.pathSegments =
                          buildSerpentinePathOptimized(flightLines, mission.index,
                                                       reverseFirstLine, DefaultDroneSpeed,
                                                       FALSE, << >>)]
  IN withPathEnds(newMission)

\* the mission placed at position i of the optimized order
chainedMission(missions, optimalOrder, costMatrix, i) ==
  LET missionIndex == optimalOrder[i]
      originalMission == missions[missionIndex]
  IN IF i = 1 THEN originalMission
     ELSE
       LET transition == costMatrix[optimalOrder[i - 1]][missionIndex]
           missionOptions == getMissionStartEndOptions(originalMission)
           matching == {k \in 1..Len(missionOptions) :
                          missionOptions[k].startPoint = transition.toEntryPoint}
           \* Array.find: the first matching option
           optimalOption == missionOptions[CHOOSE k \in matching : \A j \in matching : k <= j]
           optimalMission ==
             IF matching # {}
               THEN rebuildMissionWithOptimalPath(originalMission, optimalOption.reverseOrder,
                                                  optimalOption.reverseFirstLine)
               ELSE originalMission
       IN [optimalMission EXCEPT !.startPoint = transition.toEntryPoint,
                                 !.endPoint = transition.fromExitPoint]

buildOptimizedFlightPlan(missions, optimalOrder, costMatrix) ==
  Tuple([i \in 1..Len(optimalOrder) |-> chainedMission(missions, optimalOrder, costMatrix, i)])

\* the missions chained by the cost matrix
chainedBy(missions, costMatrix) ==
  buildOptimizedFlightPlan(missions, solveMissionOrderTSP(costMatrix), costMatrix)

optimizeMissionChaining(missions) ==
  IF Len(missions) <= 1 THEN missions
  ELSE chainedBy(missions, calculateTransitionCostMatrix(missions))

-----------------------------------------------------------------------------
(* Inputs: the MissionData handed to generateFlightPlan *)

\* imageDimensions of the default drone, px
ImageWidthPx == 5472

ImageHeightPx == 3648

\* default overlaps, percent
SideOverlap == 65

FrontOverlap == 75

\* the Polygon of rings given in decimetres; bounds are those of the outer ring
polygonOf(rings) == [coordinates |-> rings, bounds |-> calculateBounds(rings[1])]

\* the closed ring of the w x h rectangle with south-west corner (x0, y0)
rectRing(x0, y0, w, h) ==
  <<Coord(y0 + h, x0), Coord(y0 + h, x0 + w), Coord(y0, x0 + w), Coord(y0, x0),
    Coord(y0 + h, x0)>>

\* the areas of interest planned for: a small rectangle, a strip 1.5 km wide, a strip
\* 2.4 km wide, an L-shaped (concave) area, a rectangle with a hole, a field, a square,
\* a field with six excluded bands that leave plots alternately at its west and east end
AOIs ==
  <<polygonOf(<<rectRing(0, 0, 1200, 800)>>),
    polygonOf(<<rectRing(0, 0, 15000, 400)>>),
    polygonOf(<<rectRing(0, 0, 24000, 300)>>),
    polygonOf(<< <<Coord(3000, 0), Coord(3000, 2000), Coord(1000, 2000), Coord(1000, 6000),
                   Coord(0, 6000), Coord(0, 0), Coord(3000, 0)>> >>),
    polygonOf(<<rectRing(0, 0, 3000, 2000), rectRing(1000, 500, 1000, 1000)>>),
    polygonOf(<<rectRing(0, 0, 8000, 2500)>>),
    polygonOf(<<rectRing(0, 0, 900, 900)>>),
    polygonOf(<<rectRing(0, 0, 8000, 2500),
                rectRing(2005, 0, 5990, 382), rectRing(5, 382, 5990, 382),
                rectRing(2005, 764, 5990, 382), rectRing(5, 1146, 5990, 382),
                rectRing(2005, 1528, 5990, 382), rectRing(5, 1910, 5990, 382)>>)>>

\* GSD values, tenths of a cm/px: 0.4, 2, 5, 51, 1000 and 5001 cm
GSDs == {4, 20, 50, 510, 10000, 50010}

\* longest battery time planned with, minutes
MaxBattery == 18

\* fastest drone planned with, m/s
MaxSpeed == 5

\* the drones planned with: the default one, and a slow one with a short battery time
Drones ==
  {[droneSpeed |-> MaxSpeed, maxBatteryTime |-> MaxBattery],
   [droneSpeed |-> 1, maxBatteryTime |-> 10]}

\* customHeading is << >> (undefined) or <<degrees>>
HeadingChoices ==
  {[manualHeading |-> FALSE, customHeading |-> << >>],
   [manualHeading |-> TRUE, customHeading |-> << >>],
   [manualHeading |-> TRUE, customHeading |-> <<0>>],
   [manualHeading |-> TRUE, customHeading |-> <<90>>],
   [manualHeading |-> TRUE, customHeading |-> <<180>>]}

MissionDatas ==
  {[polygon |-> AOIs[k],
    droneSpecs |-> [imageDimensions |-> [width |-> ImageWidthPx, height |-> ImageHeightPx]],
    parameters |-> [gsd |-> g, frontOverlap |-> FrontOverlap, sideOverlap |-> SideOverlap,
                    droneSpeed |-> d.droneSpeed, maxBatteryTime |-> d.maxBatteryTime,
                    manualHeading |-> h.manualHeading, customHeading |-> h.customHeading]] :
     k \in 1..Len(AOIs), g \in GSDs, d \in Drones, h \in HeadingChoices}

-----------------------------------------------------------------------------
(* generateFlightPlan as a state machine *)

VARIABLES
  missionData,            \* the argument of generateFlightPlan
  pc,                     \* position in generateFlightPlan / partitionAOIIntoPolygonMissions
  thrown,                 \* the Error thrown, "" when none
  lineSpacing, photoInterval,
  candidateHeadings,
  hIdx,                   \* position of h in candidateHeadings
  best,                   \* [heading, missions, totalTime]
  remainingWidth, offsetFromWestOrSouth, missionIdx,
  missions,               \* the missions of the partitioning loop (then with the fallback)
  packed,                 \* the result of packMissionsByBattery
  chained,                \* the result of optimizeMissionChaining
  plan,                   \* << >> or <<the FlightPlan returned>>
  stripLog,               \* history: one entry per iteration of the partitioning loop
  evaluated,              \* history: [heading, missions, totalTime] per candidate evaluated
  lineCall,               \* << >> or <<the arguments of a call of a line generator>>
  lineReturn,             \* << >> or <<[generator, lines]>>, the generator called and its result
  flightPlan,             \* Home: << >> (null) or <<the FlightPlan held>>
  isGenerating,           \* Home: whether a generate request is in progress
  localParameters         \* MissionParameters: << >> (not mounted) or <<its parameters state>>

\* the variables of a direct call of generateFlightLines or generateFlightLinesClippedByAOI
lineVars == <<lineCall, lineReturn>>

\* the state of the page besides missionData
pageVars == <<flightPlan, isGenerating, localParameters>>

vars == <<missionData, pc, thrown, lineSpacing, photoInterval, candidateHeadings, hIdx, best,
          remainingWidth, offsetFromWestOrSouth, missionIdx, missions, packed, chained, plan,
          stripLog, evaluated, lineCall, lineReturn, flightPlan, isGenerating,
          localParameters>>

\* the candidate headings of a parameter set
candidateHeadingsOf(parameters) ==
  IF parameters.manualHeading /\ parameters.customHeading # << >>
    THEN <<parameters.customHeading[1]>>
    ELSE <<0, 90>>

\* the sum of the missions' estimatedTime (reduce)
totalTimeOf(ms) == SumSeq(Tuple([i \in 1..Len(ms) |-> ms[i].estimatedTime]))

totalPhotosOf(ms) == SumSeq(Tuple([i \in 1..Len(ms) |-> ms[i].estimatedPhotos]))

\* replacesBest with <= for <: a later candidate of equal total wins
replacesBestOnTie(t, bestSoFar) == t <= bestSoFar.totalTime

\* whether a candidate of total time t replaces the best so far
replacesBest(t, bestSoFar) == t < bestSoFar.totalTime

Init ==
  /\ missionData \in MissionDatas
  /\ pc = "validate"
  /\ thrown = ""
  /\ lineSpacing = 0
  /\ photoInterval = 0
  /\ candidateHeadings = << >>
  /\ hIdx = 0
  /\ best = [heading |-> 0, missions |-> << >>, totalTime |-> Infinity]
  /\ remainingWidth = 0
  /\ offsetFromWestOrSouth = 0
  /\ missionIdx = 0
  /\ missions = << >>
  /\ packed = << >>
  /\ chained = << >>
  /\ plan = << >>
  /\ stripLog = << >>
  /\ flightPlan = << >>
  /\ isGenerating = FALSE
  /\ localParameters = << >>
  /\ evaluated = << >>
  /\ lineCall = << >>
  /\ lineReturn = << >>

\* generateFlightPlan up to the first call of partitionAOIIntoPolygonMissions, whose
\* locals are initialised for the first candidate heading
Validate ==
  /\ pc = "validate"
  /\ LET p == missionData.parameters
         headings == candidateHeadingsOf(p)
     IN IF p.gsd > 50000 \/ p.gsd < 5
          THEN /\ pc' = "error"
               /\ thrown' = IF p.gsd > 50000 THEN "too high" ELSE "too low"
               /\ candidateHeadings' = headings
               /\ UNCHANGED <<lineSpacing, photoInterval, hIdx, best, remainingWidth>>
          ELSE /\ pc' = "strips"
               /\ thrown' = ""
               /\ candidateHeadings' = headings
               /\ lineSpacing' = calculateLineSpacing(p.gsd,
                                    missionData.droneSpecs.imageDimensions.width, p.sideOverlap)
               /\ photoInterval' = calculatePhotoInterval(p.gsd,
                                      missionData.droneSpecs.imageDimensions.height,
                                      p.frontOverlap)
               /\ hIdx' = 1
               /\ best' = [heading |-> headings[1], missions |-> << >>, totalTime |-> Infinity]
               /\ remainingWidth' = perpendicularWidthOf(missionData.polygon, headings[1])
  /\ UNCHANGED lineVars
  /\ UNCHANGED pageVars
  /\ UNCHANGED <<missionData, offsetFromWestOrSouth, missionIdx, missions, packed, chained,
                 plan, stripLog, evaluated>>

\* the iterations of the strip loop followed for one heading
MaxIterations == 104

\* one iteration of while (remainingWidth > 0.1)
StripIteration ==
  /\ pc = "strips"
  /\ remainingWidth > 1
  /\ missionIdx < MaxIterations
  /\ LET polygon == missionData.polygon
         droneSpeed == missionData.parameters.droneSpeed
         heading == candidateHeadings[hIdx]
         batteryTime == batteryTimeOf(missionData.parameters.maxBatteryTime)
         forcedWidth == Max(lineSpacing, Min(Div(remainingWidth * 3, 10), lineSpacing * 10))
         maxWidthForBattery == maxStripWidthOf(batteryTime, lineSpacing)
     IN \E widthForBattery \in
             {findStripWidthForBattery(remainingWidth, batteryTime, lineSpacing,
                                       alongHeadingLengthOf(polygon, heading), droneSpeed,
                                       photoInterval)} :
        \E strip \in
             {stripPolygon(polygon, heading, perpendicularWidthOf(polygon, heading),
                           offsetFromWestOrSouth, widthForBattery)} :
          IF widthForBattery * 2 < lineSpacing \/ widthForBattery * 10 > remainingWidth * 9
            THEN \* the width is consumed and no strip is generated
                 /\ remainingWidth' = Max(0, remainingWidth - forcedWidth)
                 /\ offsetFromWestOrSouth' = offsetFromWestOrSouth + forcedWidth
                 /\ missionIdx' = missionIdx + 1
                 /\ stripLog' = Append(stripLog,
                      [kind |-> "forced", heading |-> heading, offset |-> offsetFromWestOrSouth,
                       width |-> forcedWidth, strip |-> strip, rawLines |-> << >>])
                 /\ UNCHANGED <<missions, pc>>
          ELSE
            \E rawLines \in {generateFlightLinesClippedByAOI(strip, polygon, heading,
                                                             lineSpacing)} :
              IF Len(rawLines) = 0
                THEN /\ remainingWidth' = remainingWidth - widthForBattery
                     /\ offsetFromWestOrSouth' = offsetFromWestOrSouth + widthForBattery
                     /\ missionIdx' = missionIdx + 1
                     /\ stripLog' = Append(stripLog,
                          [kind |-> "empty", heading |-> heading,
                           offset |-> offsetFromWestOrSouth, width |-> widthForBattery,
                           strip |-> strip, rawLines |-> rawLines])
                     /\ UNCHANGED <<missions, pc>>
              ELSE
                \E mission \in
                     {createMissionWithArea(toFlightLines(rawLines, missionIdx, heading,
                                                          missionIdx),
                                            missionIdx, droneSpeed, photoInterval,
                                            strip.coordinates[1])} :
                  IF mission.estimatedTime > batteryTime /\ maxWidthForBattery < widthForBattery
                    THEN \* rollback
                         /\ remainingWidth' =
                              remainingWidth + (widthForBattery - maxWidthForBattery)
                         /\ offsetFromWestOrSouth' =
                              offsetFromWestOrSouth - (widthForBattery - maxWidthForBattery)
                         /\ stripLog' = Append(stripLog,
                              [kind |-> "rollback", heading |-> heading,
                               offset |-> offsetFromWestOrSouth, width |-> 0,
                               strip |-> strip, rawLines |-> rawLines])
                         /\ UNCHANGED <<missions, missionIdx, pc>>
                  ELSE /\ missions' = Append(missions,
                            withPathEnds([mission EXCEPT !.pathSegments =
                              buildSerpentinePathOptimized(mission.flightLines, missionIdx,
                                                           FALSE, droneSpeed, TRUE, polygon)]))
                       /\ remainingWidth' = remainingWidth - widthForBattery
                       /\ offsetFromWestOrSouth' = offsetFromWestOrSouth + widthForBattery
                       /\ missionIdx' = missionIdx + 1
                       /\ stripLog' = Append(stripLog,
                            [kind |-> "mission", heading |-> heading,
                             offset |-> offsetFromWestOrSouth, width |-> widthForBattery,
                             strip |-> strip, rawLines |-> rawLines])
                       /\ pc' = IF missionIdx + 1 > 100
                                   \/ widthForBattery * 100 < remainingWidth - widthForBattery
                                  THEN "exit" ELSE "strips"
  /\ UNCHANGED lineVars
  /\ UNCHANGED pageVars
  /\ UNCHANGED <<missionData, thrown, lineSpacing, photoInterval, candidateHeadings, hIdx,
                 best, packed, chained, plan, evaluated>>

\* after the loop: the fallback mission when no mission was generated
Fallback ==
  /\ \/ pc = "exit"
     \/ pc = "strips" /\ remainingWidth <= 1
  /\ missions' =
       IF Len(missions) = 0
         THEN createFallbackMission(missionData.polygon, candidateHeadings[hIdx], lineSpacing,
                                    missionData.parameters.droneSpeed, photoInterval)
         ELSE missions
  /\ pc' = "pack"
  /\ UNCHANGED lineVars
  /\ UNCHANGED pageVars
  /\ UNCHANGED <<missionData, thrown, lineSpacing, photoInterval, candidateHeadings, hIdx,
                 best, remainingWidth, offsetFromWestOrSouth, missionIdx, packed, chained,
                 plan, stripLog, evaluated>>

Pack ==
  /\ pc = "pack"
  /\ packed' = packMissionsByBattery(missions, missionData.parameters.maxBatteryTime,
                                     missionData.parameters.droneSpeed, photoInterval)
  /\ pc' = "chain"
  /\ UNCHANGED lineVars
  /\ UNCHANGED pageVars
  /\ UNCHANGED <<missionData, thrown, lineSpacing, photoInterval, candidateHeadings, hIdx,
                 best, remainingWidth, offsetFromWestOrSouth, missionIdx, missions, chained,
                 plan, stripLog, evaluated>>

Chain ==
  /\ pc = "chain"
  /\ chained' = optimizeMissionChaining(packed)
  /\ pc' = "select"
  /\ UNCHANGED lineVars
  /\ UNCHANGED pageVars
  /\ UNCHANGED <<missionData, thrown, lineSpacing, photoInterval, candidateHeadings, hIdx,
                 best, remainingWidth, offsetFromWestOrSouth, missionIdx, missions, packed,
                 plan, stripLog, evaluated>>

\* the body of for (const h of candidateHeadings) after the partitioning returned; the
\* next candidate's partitioning starts, or the loop ends
SelectBest ==
  /\ pc = "select"
  /\ LET h == candidateHeadings[hIdx]
         t == totalTimeOf(chained)
     IN /\ best' = IF replacesBest(t, best)
                     THEN [heading |-> h, missions |-> chained, totalTime |-> t]
                     ELSE best
        /\ evaluated' = Append(evaluated, [heading |-> h, missions |-> chained,
                                           totalTime |-> t])
  /\ IF hIdx < Len(candidateHeadings)
       THEN /\ hIdx' = hIdx + 1
            /\ pc' = "strips"
            /\ remainingWidth' =
                 perpendicularWidthOf(missionData.polygon, candidateHeadings[hIdx + 1])
            /\ offsetFromWestOrSouth' = 0
            /\ missionIdx' = 0
            /\ missions' = << >>
            /\ stripLog' = << >>
       ELSE /\ pc' = "totals"
            /\ UNCHANGED <<hIdx, remainingWidth, offsetFromWestOrSouth, missionIdx, missions,
                           stripLog>>
  /\ UNCHANGED lineVars
  /\ UNCHANGED pageVars
  /\ UNCHANGED <<missionData, thrown, lineSpacing, photoInterval, candidateHeadings, packed,
                 chained, plan>>

\* the totals and the FlightPlan returned
Finish ==
  /\ pc = "totals"
  /\ plan' = <<[missions |-> best.missions,
                totalTime |-> totalTimeOf(best.missions),
                totalPhotos |-> totalPhotosOf(best.missions),
                batteryCount |-> Len(best.missions),
                optimalHeading |-> best.heading]>>
  /\ pc' = "done"
  /\ UNCHANGED lineVars
  /\ UNCHANGED pageVars
  /\ UNCHANGED <<missionData, thrown, lineSpacing, photoInterval, candidateHeadings, hIdx,
                 best, remainingWidth, offsetFromWestOrSouth, missionIdx, missions, packed,
                 chained, stripLog, evaluated>>

Next == Validate \/ StripIteration \/ Fallback \/ Pack \/ Chain \/ SelectBest \/ Finish

Spec == Init /\ [][Next]_vars

-----------------------------------------------------------------------------
(* partitionAOIIntoPolygonMissions alone, for one heading, over wide areas *)

\* areas 2.4 km and 3 km wide and 100 m long, with the areas planned for above
PartitionAOIs ==
  AOIs \o <<polygonOf(<<rectRing(0, 0, 24000, 1000)>>),
            polygonOf(<<rectRing(0, 0, 30000, 1000)>>)>>

\* 0.5 cm/px, the least GSD that passes the validation, with the GSD values above
PartitionGSDs == GSDs \cup {5}

\* the headings the areas are partitioned for
PartitionHeadings == {0, 90, 180}

\* the mission data of an area, a GSD, a side overlap, a drone and a heading
partitionData(polygon, g, s, d, h) ==
  [polygon |-> polygon,
   droneSpecs |-> [imageDimensions |-> [width |-> ImageWidthPx, height |-> ImageHeightPx]],
   parameters |-> [gsd |-> g, frontOverlap |-> FrontOverlap, sideOverlap |-> s,
                   droneSpeed |-> d.droneSpeed, maxBatteryTime |-> d.maxBatteryTime,
                   manualHeading |-> TRUE, customHeading |-> <<h>>]]

\* every area, GSD, drone and heading with the default side overlap, and two areas with
\* a side overlap of 100 %, for which the line spacing is 0
PartitionDatas ==
  {partitionData(PartitionAOIs[k], g, SideOverlap, d, h) :
     k \in 1..Len(PartitionAOIs), g \in PartitionGSDs, d \in Drones, h \in PartitionHeadings}
  \cup {partitionData(PartitionAOIs[k], 20, 100, d, h) :
          k \in {1, 9}, d \in Drones, h \in {0, 90}}

InitPartition ==
  /\ missionData \in PartitionDatas
  /\ pc = "validate"
  /\ thrown = ""
  /\ lineSpacing = 0
  /\ photoInterval = 0
  /\ candidateHeadings = << >>
  /\ hIdx = 0
  /\ best = [heading |-> 0, missions |-> << >>, totalTime |-> Infinity]
  /\ remainingWidth = 0
  /\ offsetFromWestOrSouth = 0
  /\ missionIdx = 0
  /\ missions = << >>
  /\ packed = << >>
  /\ chained = << >>
  /\ plan = << >>
  /\ stripLog = << >>
  /\ flightPlan = << >>
  /\ isGenerating = FALSE
  /\ localParameters = << >>
  /\ evaluated = << >>
  /\ lineCall = << >>
  /\ lineReturn = << >>

\* the call of partitionAOIIntoPolygonMissions up to packMissionsByBattery
NextPartition == Validate \/ StripIteration \/ Fallback

SpecPartition == InitPartition /\ [][NextPartition]_vars

-----------------------------------------------------------------------------
(* generateFlightLines and generateFlightLinesClippedByAOI called directly *)

\* the areas lines are generated for: a field 200 m wide and 1 km long, a small rectangle,
\* a square, a rectangle with a hole at its centre, an L-shaped area, a rectangle with an
\* excluded corridor from south to north through its centre
LineAOIs ==
  <<polygonOf(<<rectRing(0, 0, 2000, 10000)>>),
    AOIs[1], AOIs[7], AOIs[5], AOIs[4],
    polygonOf(<<rectRing(0, 0, 3000, 2000), rectRing(1400, 0, 200, 2000)>>)>>

\* line spacings, dm: from 10 m to 1.2 km
LineSpacings == {100, 382, 500, 957, 2000, 3000, 4000, 5000, 9767, 12000}

LineHeadings == {0, 90, 180}

\* the calls: every area as its own master AOI, and the west strip, 30 m wide, of the
\* small rectangle
LineCalls ==
  {[area |-> LineAOIs[k], masterAOI |-> LineAOIs[k], heading |-> h, lineSpacing |-> s] :
     k \in 1..Len(LineAOIs), h \in LineHeadings, s \in LineSpacings}
  \cup {[area |-> stripPolygon(AOIs[1], 0, 1200, 0, 300), masterAOI |-> AOIs[1],
         heading |-> h, lineSpacing |-> s] : h \in LineHeadings, s \in LineSpacings}

InitLines ==
  /\ missionData = partitionData(AOIs[1], 20, SideOverlap,
                                 [droneSpeed |-> MaxSpeed, maxBatteryTime |-> MaxBattery], 0)
  /\ pc = "validate"
  /\ thrown = ""
  /\ lineSpacing = 0
  /\ photoInterval = 0
  /\ candidateHeadings = << >>
  /\ hIdx = 0
  /\ best = [heading |-> 0, missions |-> << >>, totalTime |-> Infinity]
  /\ remainingWidth = 0
  /\ offsetFromWestOrSouth = 0
  /\ missionIdx = 0
  /\ missions = << >>
  /\ packed = << >>
  /\ chained = << >>
  /\ plan = << >>
  /\ stripLog = << >>
  /\ flightPlan = << >>
  /\ isGenerating = FALSE
  /\ localParameters = << >>
  /\ evaluated = << >>
  /\ lineCall \in {<<c>> : c \in LineCalls}
  /\ lineReturn = << >>

\* a call of generateFlightLines(polygon, heading, lineSpacing) with the area as polygon
GenerateFlightLines ==
  /\ lineCall # << >>
  /\ lineReturn = << >>
  /\ lineReturn' = <<[generator |-> "generateFlightLines",
                      lines |-> generateFlightLines(lineCall[1].area, lineCall[1].heading,
                                                    lineCall[1].lineSpacing)]>>
  /\ UNCHANGED <<missionData, pc, thrown, lineSpacing, photoInterval, candidateHeadings, hIdx,
                 best, remainingWidth, offsetFromWestOrSouth, missionIdx, missions, packed,
                 chained, plan, stripLog, evaluated, lineCall>>
  /\ UNCHANGED pageVars

\* a call of generateFlightLinesClippedByAOI(area, masterAOI, heading, lineSpacing)
GenerateFlightLinesClippedByAOI ==
  /\ lineCall # << >>
  /\ lineReturn = << >>
  /\ lineReturn' = <<[generator |-> "generateFlightLinesClippedByAOI",
                      lines |-> generateFlightLinesClippedByAOI(
                                  lineCall[1].area, lineCall[1].masterAOI,
                                  lineCall[1].heading, lineCall[1].lineSpacing)]>>
  /\ UNCHANGED <<missionData, pc, thrown, lineSpacing, photoInterval, candidateHeadings, hIdx,
                 best, remainingWidth, offsetFromWestOrSouth, missionIdx, missions, packed,
                 chained, plan, stripLog, evaluated, lineCall>>
  /\ UNCHANGED pageVars

NextLines == GenerateFlightLines \/ GenerateFlightLinesClippedByAOI

SpecLines == InitLines /\ [][NextLines]_vars

-----------------------------------------------------------------------------
(* generateFlightPlan at the finest GSD over small stepped areas *)

\* two areas whose north boundary steps up by 40 m and by 45 m: 100 m x 200 m rising to
\* 240 m east of x = 10 m, and 60 m x 100 m rising to 145 m east of x = 30 m
FineAOIs ==
  <<polygonOf(<< <<Coord(2000, 0), Coord(2000, 100), Coord(2400, 100), Coord(2400, 1000),
                   Coord(0, 1000), Coord(0, 0), Coord(2000, 0)>> >>),
    polygonOf(<< <<Coord(1000, 0), Coord(1000, 300), Coord(1450, 300), Coord(1450, 600),
                   Coord(0, 600), Coord(0, 0), Coord(1000, 0)>> >>)>>

\* 0.5 cm/px, the least GSD that passes the validation
FineGSD == 5

\* drones of 1, 3 and 5 m/s
FineDrones ==
  {[droneSpeed |-> 1, maxBatteryTime |-> 15],
   [droneSpeed |-> 3, maxBatteryTime |-> 12],
   [droneSpeed |-> MaxSpeed, maxBatteryTime |-> MaxBattery]}

FineDatas ==
  {[polygon |-> FineAOIs[k],
    droneSpecs |-> [imageDimensions |-> [width |-> ImageWidthPx, height |-> ImageHeightPx]],
    parameters |-> [gsd |-> FineGSD, frontOverlap |-> FrontOverlap,
                    sideOverlap |-> SideOverlap,
                    droneSpeed |-> d.droneSpeed, maxBatteryTime |-> d.maxBatteryTime,
                    manualHeading |-> h.manualHeading, customHeading |-> h.customHeading]] :
     k \in 1..Len(FineAOIs), d \in FineDrones, h \in HeadingChoices}

InitFine ==
  /\ missionData \in FineDatas
  /\ pc = "validate"
  /\ thrown = ""
  /\ lineSpacing = 0
  /\ photoInterval = 0
  /\ candidateHeadings = << >>
  /\ hIdx = 0
  /\ best = [heading |-> 0, missions |-> << >>, totalTime |-> Infinity]
  /\ remainingWidth = 0
  /\ offsetFromWestOrSouth = 0
  /\ missionIdx = 0
  /\ missions = << >>
  /\ packed = << >>
  /\ chained = << >>
  /\ plan = << >>
  /\ stripLog = << >>
  /\ flightPlan = << >>
  /\ isGenerating = FALSE
  /\ localParameters = << >>
  /\ evaluated = << >>
  /\ lineCall = << >>
  /\ lineReturn = << >>

SpecFine == InitFine /\ [][Next]_vars

-----------------------------------------------------------------------------
(* generateOptimizedTurn called directly *)

\* the calls: the first line ends and the second starts in the small rectangle or near
\* its north and east edges; the headings, degrees, give deltas on both sides of 30 and
\* of 150 degrees and differences beyond 180 degrees; the turn radius, dm, is the least,
\* 10 m or the greatest
TurnCalls ==
  {[line1End |-> e, line2Start |-> st, line1Heading |-> h1, line2Heading |-> h2,
    turnRadius |-> r, polygon |-> AOIs[1]] :
     e \in {Coord(750, 300), Coord(400, 600), Coord(100, 100)},
     st \in {Coord(750, 400), Coord(400, 650), Coord(780, 1100)},
     h1 \in {0, 90, 350},
     h2 \in {0, 29, 30, 90, 150, 151, 180, 200, 270, 331},
     r \in {TurnRadiusMin, 100, TurnRadiusMax}}

InitTurn ==
  /\ lineCall \in {<<c>> : c \in TurnCalls}
  /\ lineReturn = << >>
  /\ missionData = << >>
  /\ pc = "call"
  /\ thrown = ""
  /\ lineSpacing = 0
  /\ photoInterval = 0
  /\ candidateHeadings = << >>
  /\ hIdx = 0
  /\ best = << >>
  /\ remainingWidth = 0
  /\ offsetFromWestOrSouth = 0
  /\ missionIdx = 0
  /\ missions = << >>
  /\ packed = << >>
  /\ chained = << >>
  /\ plan = << >>
  /\ stripLog = << >>
  /\ flightPlan = << >>
  /\ isGenerating = FALSE
  /\ localParameters = << >>
  /\ evaluated = << >>

GenerateOptimizedTurn ==
  /\ pc = "call"
  /\ lineCall # << >>
  /\ lineReturn = << >>
  /\ lineReturn' = <<[generator |-> "generateOptimizedTurn",
                      waypoints |-> generateOptimizedTurn(lineCall[1].line1End,
                                                          lineCall[1].line2Start,
                                                          lineCall[1].line1Heading,
                                                          lineCall[1].line2Heading,
                                                          lineCall[1].turnRadius,
                                                          lineCall[1].polygon)]>>
  /\ pc' = "return"
  /\ UNCHANGED <<missionData, thrown, lineSpacing, photoInterval, candidateHeadings, hIdx,
                 best, remainingWidth, offsetFromWestOrSouth, missionIdx, missions, packed,
                 chained, plan, stripLog, evaluated, lineCall>>
  /\ UNCHANGED pageVars

SpecTurn == InitTurn /\ [][GenerateOptimizedTurn]_vars

-----------------------------------------------------------------------------
(* the page: Home with KMLUpload and MissionParameters *)

\* defaultParameters of KMLUpload: GSD 2.0 cm, 5 m/s, 18 min, automatic heading
defaultParameters ==
  [gsd |-> 20, frontOverlap |-> FrontOverlap, sideOverlap |-> SideOverlap,
   droneSpeed |-> 5, maxBatteryTime |-> 18,
   manualHeading |-> FALSE, customHeading |-> <<0>>]

\* the page as first rendered: no missionData, no flightPlan, MissionParameters not
\* mounted; the planner's variables stay as they are here
InitPage ==
  /\ missionData = << >>
  /\ flightPlan = << >>
  /\ isGenerating = FALSE
  /\ localParameters = << >>
  /\ pc = "page"
  /\ thrown = ""
  /\ lineSpacing = 0
  /\ photoInterval = 0
  /\ candidateHeadings = << >>
  /\ hIdx = 0
  /\ best = << >>
  /\ remainingWidth = 0
  /\ offsetFromWestOrSouth = 0
  /\ missionIdx = 0
  /\ missions = << >>
  /\ packed = << >>
  /\ chained = << >>
  /\ plan = << >>
  /\ stripLog = << >>
  /\ evaluated = << >>
  /\ lineCall = << >>
  /\ lineReturn = << >>

\* a KML file of one of the areas is uploaded: handleFileUpload builds the MissionData
\* with defaultParameters and calls onKMLUploaded, which is (data) => setMissionData(data).
\* MissionParameters is mounted by the first upload, with its parameters state taken
\* from the data, and its effect on calculatedAltitude then calls onParametersChange; at
\* a later upload (the file shown is removed with handleRemoveFile, which leaves the
\* page's state alone, and another is chosen) it stays mounted, keeps its state, and no
\* effect runs
KMLUploaded ==
  /\ pc = "page"
  /\ \E k \in 1..Len(AOIs) :
       missionData' =
         <<[polygon |-> AOIs[k],
            droneSpecs |-> [imageDimensions |-> [width |-> ImageWidthPx,
                                                 height |-> ImageHeightPx]],
            parameters |-> defaultParameters]>>
  /\ IF missionData = << >>
       THEN /\ localParameters' = <<defaultParameters>>
            /\ flightPlan' = << >>
       ELSE UNCHANGED <<localParameters, flightPlan>>
  /\ thrown' = ""
  /\ UNCHANGED isGenerating
  /\ UNCHANGED <<pc, lineSpacing, photoInterval, candidateHeadings, hIdx, best,
                 remainingWidth, offsetFromWestOrSouth, missionIdx, missions, packed,
                 chained, plan, stripLog, evaluated, lineCall, lineReturn>>

\* a field of the form is changed: handleParameterChange sets the parameters state and
\* calls onParametersChange, which is handleMissionDataUpdate. The GSD field is set to
\* 0.4 (below the range generateFlightPlan accepts), 2.0, 5.0 or 51.0 cm, the speed and
\* the battery time to those of one of the drones planned with
ParametersChange ==
  /\ pc = "page"
  /\ missionData # << >>
  /\ \E g \in {4, 20, 50, 510}, d \in Drones :
       LET newParameters == [localParameters[1] EXCEPT !.gsd = g,
                                                       !.droneSpeed = d.droneSpeed,
                                                       !.maxBatteryTime = d.maxBatteryTime]
       IN /\ localParameters' = <<newParameters>>
          /\ missionData' = <<[missionData[1] EXCEPT !.parameters = newParameters]>>
  /\ flightPlan' = << >>
  /\ thrown' = ""
  /\ UNCHANGED isGenerating
  /\ UNCHANGED <<pc, lineSpacing, photoInterval, candidateHeadings, hIdx, best,
                 remainingWidth, offsetFromWestOrSouth, missionIdx, missions, packed,
                 chained, plan, stripLog, evaluated, lineCall, lineReturn>>

\* the Generate button: handleGenerateFlightPlan of MissionParameters passes missionData
\* with its parameters state to handleGenerateFlightPlan of Home, which sets
\* isGenerating, calls generateFlightPlan, holds the plan returned or, when the call
\* threw (the GSD is out of range), alerts, and in its finally block resets isGenerating;
\* nothing is awaited on the way. The FlightPlan held is represented by the data it
\* was generated from
GenerateFlightPlanRequest ==
  /\ pc = "page"
  /\ missionData # << >>
  /\ ~isGenerating
  /\ LET data == [missionData[1] EXCEPT !.parameters = localParameters[1]]
     IN IF data.parameters.gsd > 50000 \/ data.parameters.gsd < 5
          THEN /\ thrown' = "alert"
               /\ UNCHANGED flightPlan
          ELSE /\ thrown' = ""
               /\ flightPlan' = <<[generatedFrom |-> data]>>
  /\ isGenerating' = FALSE
  /\ UNCHANGED <<missionData, localParameters>>
  /\ UNCHANGED <<pc, lineSpacing, photoInterval, candidateHeadings, hIdx, best,
                 remainingWidth, offsetFromWestOrSouth, missionIdx, missions, packed,
                 chained, plan, stripLog, evaluated, lineCall, lineReturn>>

SpecPage == InitPage /\ [][KMLUploaded \/ ParametersChange \/ GenerateFlightPlanRequest]_vars

-----------------------------------------------------------------------------
(* Properties *)

\* 0.9 x maxBatteryTime of the mission data planned for, ms
Budget == batteryTimeOf(missionData.parameters.maxBatteryTime)

\* the missions of the FlightPlan returned (<< >> before the return)
PlanMissions == IF plan = << >> THEN << >> ELSE plan[1].missions

\* the coordinate lists of the flight lines of a list of missions
LineCoordinates(ms) ==
  UNION {{ms[i].flightLines[l].coordinates : l \in 1..Len(ms[i].flightLines)} :
           i \in 1..Len(ms)}

\* C1: for every GSD outside [0.5, 50] cm generateFlightPlan stops with a validation
\* error before any partitioning, and for a GSD inside the range it raises none: once
\* validation has run, the program is in its error state exactly when the GSD is
\* outside the range.
C1_GsdOutsideRangeIsFatal ==
  LET g == missionData.parameters.gsd
  IN pc # "validate" => (pc = "error" <=> (g < 5 \/ g > 500))

\* C2: every mission of the returned plan has estimatedTime <= 0.9 x maxBatteryTime,
\* except a mission of exactly one flight line.
C2_MissionsWithinBudget ==
  \A i \in 1..Len(PlanMissions) :
     \/ PlanMissions[i].estimatedTime <= Budget
     \/ Len(PlanMissions[i].flightLines) = 1

\* every coordinate of every flight line of the missions is interior to the AOI
InteriorToAOI(ms) ==
  \A cs \in LineCoordinates(ms) :
     \A c \in 1..Len(cs) : isPointInPolygonRings(cs[c], missionData.polygon.coordinates)

\* C3: every coordinate of every line generated for a strip is interior to the strip
\* rectangle and to the AOI; every coordinate of every flight line of every mission
\* (of the loop, merged, chained, kept as best, returned) is interior to the AOI; and
\* merging and chaining leave the coordinate lists of the flight lines as they were.
C3_WaypointsInterior ==
  /\ \A e \in 1..Len(stripLog) :
        \A r \in 1..Len(stripLog[e].rawLines) :
           \A c \in 1..Len(stripLog[e].rawLines[r]) :
              /\ isPointInPolygonRings(stripLog[e].rawLines[r][c],
                                       stripLog[e].strip.coordinates)
              /\ isPointInPolygonRings(stripLog[e].rawLines[r][c],
                                       missionData.polygon.coordinates)
  /\ InteriorToAOI(missions)
  /\ InteriorToAOI(packed)
  /\ InteriorToAOI(chained)
  /\ InteriorToAOI(best.missions)
  /\ InteriorToAOI(PlanMissions)
  /\ pc \in {"chain", "select", "totals", "done"} =>
        LineCoordinates(packed) = LineCoordinates(missions)
  /\ pc \in {"select", "totals", "done"} =>
        LineCoordinates(chained) = LineCoordinates(packed)

\* a concave AOI was cut into strips whose lines the AOI clipped shorter than the
\* strip, two strips were merged, and the plan was returned
C3_Witness ==
  /\ pc = "done"
  /\ Len(missionData.polygon.coordinates[1]) > 5
  /\ Len(PlanMissions) >= 1
  /\ Len(packed) < Len(missions)
  /\ \E e \in 1..Len(stripLog) :
        /\ stripLog[e].kind = "mission"
        /\ \E r \in 1..Len(stripLog[e].rawLines) :
              2 * calculateLineLength(stripLog[e].rawLines[r])
                < alongHeadingLengthOf(missionData.polygon, stripLog[e].heading)

\* C4: the loop never consumes an interval of the perpendicular width without
\* generating a strip and invoking flight-line generation for it: every iteration that
\* advanced the offset is one that generated its strip.
C4_StripsTileWidth ==
  \A e \in 1..Len(stripLog) : stripLog[e].width > 0 => stripLog[e].kind # "forced"

\* the candidate of least total time among those evaluated, the earliest of them: the
\* position in `evaluated`
Winner ==
  CHOOSE k \in 1..Len(evaluated) :
    \A j \in 1..Len(evaluated) :
       \/ evaluated[k].totalTime < evaluated[j].totalTime
       \/ evaluated[k].totalTime = evaluated[j].totalTime /\ k <= j

\* C6: the candidates evaluated are the manual heading alone when one is set, else 0
\* then 90; the plan returned holds the missions and the heading of the candidate of
\* lowest total estimatedTime, the earlier one when the totals are equal.
C6_HeadingSelection ==
  pc = "done" =>
    LET p == missionData.parameters
        expected == IF p.manualHeading /\ p.customHeading # << >>
                      THEN <<p.customHeading[1]>> ELSE <<0, 90>>
    IN /\ Len(evaluated) = Len(expected)
       /\ \A k \in 1..Len(expected) :
             /\ evaluated[k].heading = expected[k]
             /\ evaluated[k].totalTime = totalTimeOf(evaluated[k].missions)
       /\ plan[1].missions = evaluated[Winner].missions
       /\ plan[1].optimalHeading = evaluated[Winner].heading

\* both candidates were evaluated with equal totals and the earlier one, heading 0, was
\* returned
C6_Witness ==
  /\ pc = "done"
  /\ Len(evaluated) = 2
  /\ evaluated[1].totalTime = evaluated[2].totalTime
  /\ evaluated[1].totalTime > 0
  /\ plan[1].optimalHeading = 0

\* the flight lines of a mission, as the set of (id, coordinates)
LineSet(m) ==
  {[id |-> m.flightLines[l].id, coordinates |-> m.flightLines[l].coordinates] :
     l \in 1..Len(m.flightLines)}

\* C7: for two or more missions optimizeMissionChaining returns each mission it was
\* given exactly once, with the same set of flight lines.
C7_ChainingIsPermutation ==
  (pc = "select" /\ Len(packed) >= 2) =>
    /\ Len(chained) = Len(packed)
    /\ \A i \in 1..Len(packed) :
          /\ Cardinality({j \in 1..Len(chained) : chained[j].id = packed[i].id}) = 1
          /\ \A j \in 1..Len(chained) :
                chained[j].id = packed[i].id => LineSet(chained[j]) = LineSet(packed[i])

\* three or more missions were chained in an order other than the one given
C7_Witness ==
  /\ pc = "select"
  /\ Len(packed) >= 3
  /\ \E j \in 1..Len(chained) : chained[j].id # packed[j].id

\* the first coordinate and the last coordinate of a mission's path
PathStart(m) == m.pathSegments[1].coordinates[1]

PathEnd(m) == Last(Last(m.pathSegments).coordinates)

\* C8: for each consecutive pair of chained missions, the distance from the end of the
\* earlier mission's path to the start of the later mission's path is the minimum over
\* the 4 x 4 start/end configurations (the distance recorded in the cost matrix).
C8_TransitionIsMinimum ==
  (pc = "select" /\ Len(packed) >= 2) =>
    \A i \in 1..(Len(chained) - 1) :
       calculateDistance(PathEnd(chained[i]), PathStart(chained[i + 1]))
         = findOptimalTransition(packed[chained[i].index + 1],
                                 packed[chained[i + 1].index + 1]).distance

\* C9: every mission of the returned plan that has path segments has its startPoint at
\* the first coordinate of its first segment and its endPoint at the last coordinate of
\* its last segment.
C9_EndsMatchPath ==
  \A i \in 1..Len(PlanMissions) :
     Len(PlanMissions[i].pathSegments) > 0 =>
       /\ PlanMissions[i].startPoint = PathStart(PlanMissions[i])
       /\ PlanMissions[i].endPoint = PathEnd(PlanMissions[i])

\* whether a mission holds the flight lines of more than one strip
IsMerged(m) ==
  Cardinality({m.flightLines[l].missionIndex : l \in 1..Len(m.flightLines)}) > 1

\* C10: packMissionsByBattery merges exactly when the combined estimatedTime is within
\* 0.9 x maxBatteryTime: the second mission is merged into the first exactly when the
\* two fit together, no two adjacent missions of the output fit together, and no
\* merged mission exceeds the budget.
C10_PackMergeRule ==
  pc = "chain" =>
    /\ Len(missions) >= 2 =>
         ((missions[1].estimatedTime + missions[2].estimatedTime <= Budget)
            <=> LineSet(missions[2]) \subseteq LineSet(packed[1]))
    /\ \A i \in 1..(Len(packed) - 1) :
          packed[i].estimatedTime + packed[i + 1].estimatedTime > Budget
    /\ \A i \in 1..Len(packed) : IsMerged(packed[i]) => packed[i].estimatedTime <= Budget

\* a merge happened and the output still holds two or more missions
C10_Witness ==
  /\ pc = "chain"
  /\ Len(packed) >= 2
  /\ \E i \in 1..Len(packed) : IsMerged(packed[i])


-----------------------------------------------------------------------------
(* Properties of the strip loop *)

\* C11: partitionAOIIntoPolygonMissions never produces more than 100 missions for one
\* heading: the strip loop stops generating once the cap of 100 is reached.
C11_AtMost100Missions == Len(missions) <= 100

\* C12: the strip loop terminates for every input that passes the GSD validation, a line
\* spacing of zero included: every iteration, on the normal path and on each skip and
\* continue path, strictly reduces the remaining width or leaves the loop at the cap.
C12_IterationMakesProgress ==
  [][pc = "strips" /\ pc' \in {"strips", "exit"}
       => remainingWidth' < remainingWidth \/ pc' = "exit"]_vars

\* timeMin of estimateTimeForStrip for a strip of the given width of the area partitioned
StripTime(width) ==
  estimateTimeForStrip(width, lineSpacing,
                       alongHeadingLengthOf(missionData.polygon, candidateHeadings[hIdx]),
                       missionData.parameters.droneSpeed, photoInterval)

\* the width findStripWidthForBattery returns for the remaining width
NextStripWidth ==
  findStripWidthForBattery(remainingWidth, Budget, lineSpacing,
                           alongHeadingLengthOf(missionData.polygon, candidateHeadings[hIdx]),
                           missionData.parameters.droneSpeed, photoInterval)

\* C16: findStripWidthForBattery returns the greatest strip width in
\* [lineSpacing, remainingWidth] whose estimateTimeForStrip is within 0.9 x maxBatteryTime;
\* in particular, whenever some width of that range is within the budget (the least one,
\* lineSpacing, then is), the estimated time of the width returned is within the budget,
\* on every branch.
C16_WidthWithinBudget ==
  (/\ pc = "strips" /\ remainingWidth > 1
   /\ 0 < lineSpacing /\ lineSpacing <= remainingWidth
   /\ StripTime(lineSpacing) <= Budget)
    => StripTime(NextStripWidth) <= Budget

-----------------------------------------------------------------------------
(* Properties of the line generators *)

\* the arguments and the result of the generator call made
CallArgs == lineCall[1]

ReturnedLines == lineReturn[1].lines

\* the greater of the two extents of the bounding box of an area
WidestExtent(area) ==
  Max(coverageWidthAcross(area, 0), coverageWidthAcross(area, 90))

\* whether every waypoint of a line is on the axis through the centre of the bounding box
\* of the area, along the heading
OnCenterAxis(line, area, heading) ==
  LET b == area.bounds
  IN \A w \in 1..Len(line) :
       IF heading = 0 \/ heading = 180
         THEN line[w].lng = Div(b.east + b.west, 2)
         ELSE line[w].lat = Div(b.north + b.south, 2)

\* C13: whenever the line spacing is at least the coverage width of the polygon or strip,
\* the generator returns the single-centerline fallback, one line through the centre, and
\* not zero lines; this holds for generateFlightLinesClippedByAOI as for
\* generateFlightLines.
C13_SingleCenterLine ==
  (lineReturn # << >> /\ CallArgs.lineSpacing >= WidestExtent(CallArgs.area))
    => /\ Len(ReturnedLines) = 1
       /\ OnCenterAxis(ReturnedLines[1], CallArgs.area, CallArgs.heading)

\* whether an area is the rectangle of its bounding box, without holes
IsRectangle(area) ==
  LET b == area.bounds
  IN area.coordinates = <<rectRing(b.west, b.south, b.east - b.west, b.north - b.south)>>

\* C14: for a rectangular AOI of extent W perpendicular to the heading and a spacing s
\* with W / 50 <= s < W the generator lays out ceil(W / s) + 1 parallel lines spread over
\* W, the coverage width being the extent perpendicular to the heading, in
\* generateFlightLines and in the per-strip generator alike. Of the lines laid out, the one
\* on the east or north edge of the rectangle has no interior waypoint, so the lines
\* returned are ceil(W / s) + 1 or one fewer.
C14_LineCountOfRectangle ==
  LET W == coverageWidthAcross(CallArgs.area, CallArgs.heading)
      s == CallArgs.lineSpacing
  IN (/\ lineReturn # << >>
      /\ IsRectangle(CallArgs.area) /\ CallArgs.masterAOI = CallArgs.area
      /\ W <= s * MaxLinesAcross /\ s < W)
       => Len(ReturnedLines) \in {CeilDiv(W, s), CeilDiv(W, s) + 1}

\* the lines the generator called returns for the arguments of the call, at spacing s
LinesAtSpacing(s) ==
  IF lineReturn[1].generator = "generateFlightLines"
    THEN generateFlightLines(CallArgs.area, CallArgs.heading, s)
    ELSE generateFlightLinesClippedByAOI(CallArgs.area, CallArgs.masterAOI,
                                         CallArgs.heading, s)

\* C15: with the AOI and the heading fixed, the line count is monotone in the spacing:
\* for s1 < s2 the generator returns at least as many lines at s1 as at s2, across the
\* single-centerline branch, the minimum-spacing adjustment and the cap.
C15_CountMonotoneInSpacing ==
  lineReturn # << >>
    => \A s2 \in LineSpacings :
         s2 > CallArgs.lineSpacing => Len(LinesAtSpacing(s2)) <= Len(ReturnedLines)

\* the maximal runs of consecutive waypoints classified interior, of two or more
\* waypoints, in order
MaximalRuns(waypoints, inside) ==
  LET n == Len(waypoints)
      starts == {w \in 1..n : inside[w] /\ (w = 1 \/ ~inside[w - 1])}
      endOf(s) == CHOOSE e \in s..n :
                    /\ \A k \in s..e : inside[k]
                    /\ e = n \/ ~inside[e + 1]
      kept == {s \in starts : endOf(s) > s}
      RECURSIVE runsFrom(_)
      runsFrom(w) ==
        IF \A s \in kept : s < w THEN << >>
        ELSE LET s == CHOOSE s \in kept : s >= w /\ \A t \in kept : t >= w => s <= t
             IN <<SubSeq(waypoints, s, endOf(s))>> \o runsFrom(endOf(s) + 1)
  IN runsFrom(1)

\* the maximal interior runs of the waypoints of one raw line of the call made:
\* generateFlightLines tests the polygon, the per-strip generator the area and the master
\* AOI
RunsOfWaypoints(waypoints) ==
  MaximalRuns(waypoints,
              Tuple([w \in 1..Len(waypoints) |->
                       /\ isPointInPolygonRings(waypoints[w], CallArgs.area.coordinates)
                       /\ \/ lineReturn[1].generator = "generateFlightLines"
                          \/ isPointInPolygonRings(waypoints[w],
                                                   CallArgs.masterAOI.coordinates)]))

\* the maximal interior runs of raw line i of the line loop, for a layout
RunsOfRawLine(i, layout) ==
  LET clipped == clippedLineAt(i, layout.numLines, CallArgs.area, CallArgs.heading,
                               layout.coverageWidth)
  IN IF clipped = << >> THEN << >>
     ELSE RunsOfWaypoints(
            generateWaypointsAlongLine(clipped[1].start, clipped[1].end,
                                       Min(layout.adjustedLineSpacing, WaypointSpacingMax)))

RECURSIVE RunsFromRawLine(_, _)
RunsFromRawLine(i, layout) ==
  IF i >= layout.numLines THEN << >>
  ELSE RunsOfRawLine(i, layout) \o RunsFromRawLine(i + 1, layout)

\* the maximal interior runs of all the raw lines of the call made, in order
ExpectedRuns ==
  IF lineReturn[1].generator = "generateFlightLinesClippedByAOI"
    THEN RunsFromRawLine(0, clippedLayout(CallArgs.area, CallArgs.lineSpacing))
  ELSE IF CallArgs.lineSpacing >= coverageWidthAcross(CallArgs.area, CallArgs.heading)
    THEN RunsOfWaypoints(centerLineWaypoints(CallArgs.area, CallArgs.heading))
  ELSE RunsFromRawLine(0, acrossLayout(CallArgs.area, CallArgs.heading,
                                       CallArgs.lineSpacing))

\* C17: for any sequence of interior and exterior classifications along a raw line the
\* generator emits exactly the maximal runs of consecutive interior waypoints of two or
\* more waypoints, each as a flight line of its own, in order, in the multi-line
\* generators and in the single-centerline fallback.
C17_EmitsMaximalRuns ==
  lineReturn # << >> => ReturnedLines = ExpectedRuns


\* the coordinates of the 'line' segments of a path, in path order
LineSegmentCoordinates(pathSegments) ==
  LET lineSegs == SelectSeq(pathSegments, LAMBDA seg : seg.kind = "line")
  IN Tuple([i \in 1..Len(lineSegs) |-> lineSegs[i].coordinates])

\* a traversal up to its direction: the coordinates forward and reversed
Traversal(coordinates) == {coordinates, Reverse(coordinates)}

\* how many of the coordinate sequences are the traversal t
TimesFlown(t, coords) == Cardinality({j \in 1..Len(coords) : Traversal(coords[j]) = t})

\* the 'line' segments of mission m traverse each of its flight lines exactly once,
\* forward or reversed: as many segments as lines, and every traversal occurs as often
\* among the segments as among the lines
LinesFlownOnce(m) ==
  LET segs == LineSegmentCoordinates(m.pathSegments)
      lines == Tuple([l \in 1..Len(m.flightLines) |-> m.flightLines[l].coordinates])
  IN /\ Len(segs) = Len(lines)
     /\ \A i \in 1..Len(segs) :
          TimesFlown(Traversal(segs[i]), segs) = TimesFlown(Traversal(segs[i]), lines)

\* every mission the planner holds: of the loop, packed, chained and returned
MissionsHeld ==
  {missions[i] : i \in 1..Len(missions)} \cup {packed[i] : i \in 1..Len(packed)}
    \cup {chained[i] : i \in 1..Len(chained)}
    \cup (IF plan = << >> THEN {} ELSE {plan[1].missions[i] : i \in 1..Len(plan[1].missions)})

\* C18: in every mission's path the 'line' segments are in one-to-one correspondence
\* with the mission's flight lines: each flight line is traversed exactly once, forward
\* or reversed, whether the path comes from buildSerpentinePathOptimized or from
\* buildSerpentinePath.
C18_LineSegmentsMatchFlightLines ==
  \A m \in MissionsHeld : LinesFlownOnce(m)


\* a mission of the loop with three or more lines has a line flown reversed in its
\* path, and a packed mission merges the lines of two strips
C18_Witness ==
  /\ \E i \in 1..Len(missions) :
        /\ Len(missions[i].flightLines) >= 3
        /\ \E k \in 1..Len(missions[i].pathSegments) :
              /\ missions[i].pathSegments[k].kind = "line"
              /\ \E l \in 1..Len(missions[i].flightLines) :
                    /\ missions[i].pathSegments[k].coordinates =
                         Reverse(missions[i].flightLines[l].coordinates)
                    /\ missions[i].pathSegments[k].coordinates #
                         missions[i].flightLines[l].coordinates
  /\ \E i \in 1..Len(packed) :
        \E a, b \in 1..Len(packed[i].flightLines) :
           packed[i].flightLines[a].id[1] # packed[i].flightLines[b].id[1]


\* the order in which the path of mission m flies its lines: for each 'line' segment
\* the position of its line in m.flightLines and whether it is flown reversed
OrderFlown(m) ==
  LET segs == LineSegmentCoordinates(m.pathSegments)
      lineOf(k) == CHOOSE l \in 1..Len(m.flightLines) :
                     m.flightLines[l].coordinates \in Traversal(segs[k])
  IN Tuple([k \in 1..Len(segs) |->
              [index |-> lineOf(k),
               direction |-> segs[k] # m.flightLines[lineOf(k)].coordinates]])

\* the lines of m not flown in the first k steps of the order
UnvisitedAfter(m, order, k) ==
  {l \in 1..Len(m.flightLines) : \A j \in 1..k : order[j].index # l}

\* the distance from the end of the line flown at step k to the start of line l
\* flown in the given direction
DistanceToCandidate(m, order, k, l, direction) ==
  calculateDistance(getLineEndPoint(m.flightLines[order[k].index], order[k].direction),
                    getLineStartPoint(m.flightLines[l], direction))

\* whether candidate (l, direction) comes before the candidate c in insertion order,
\* the forward direction of a line before its reverse
ComesBefore(l, direction, c) ==
  \/ l < c.index
  \/ l = c.index /\ ~direction /\ c.direction

\* whether the line flown at step k + 1 is an unvisited line at the least distance,
\* the earliest of those at that distance
NearestChosen(m, order, k) ==
  LET c == order[k + 1]
      chosen == DistanceToCandidate(m, order, k, c.index, c.direction)
  IN /\ c.index \in UnvisitedAfter(m, order, k)
     /\ \A l \in UnvisitedAfter(m, order, k) : \A direction \in BOOLEAN :
           LET d == DistanceToCandidate(m, order, k, l, direction)
           IN /\ chosen <= d
              /\ d = chosen => ~ComesBefore(l, direction, c)

\* C19: at every step of orderLinesByProximity after the start line, the line appended
\* next is an unvisited line whose nearer endpoint, over both traversal directions, is at
\* the least distance from the end point of the current line in its chosen direction;
\* among candidates at equal distance the earliest in insertion order is chosen, the
\* forward direction before the reverse.
C19_NearestEndpointNext ==
  pc \in {"strips", "exit"} =>
    \A i \in 1..Len(missions) :
      Len(missions[i].flightLines) >= 2 =>
        \A k \in 1..(Len(missions[i].flightLines) - 1) :
          NearestChosen(missions[i], OrderFlown(missions[i]), k)

\* a step at which two candidates were at the least distance
TieAt(m, order, k) ==
  LET c == order[k + 1]
      chosen == DistanceToCandidate(m, order, k, c.index, c.direction)
  IN \E l \in UnvisitedAfter(m, order, k) : \E direction \in BOOLEAN :
        /\ <<l, direction>> # <<c.index, c.direction>>
        /\ DistanceToCandidate(m, order, k, l, direction) = chosen

\* a mission of the loop with three or more lines in whose ordering some step had two
\* candidates at the least distance, and some line is flown reversed
C19_Witness ==
  /\ pc \in {"strips", "exit"}
  /\ \E i \in 1..Len(missions) :
        /\ Len(missions[i].flightLines) >= 3
        /\ \E k \in 1..(Len(missions[i].flightLines) - 1) :
              TieAt(missions[i], OrderFlown(missions[i]), k)
        /\ \E k \in 1..Len(missions[i].flightLines) : OrderFlown(missions[i])[k].direction


\* the structure of a path-segment sequence: lines at both ends, no connector next to a
\* connector, segmentIndex counting from 0, every connector joining the end of the line
\* before it to the start of the line after it
WellFormedPath(path) ==
  Len(path) > 0 =>
    /\ path[1].kind = "line"
    /\ path[Len(path)].kind = "line"
    /\ \A k \in 1..(Len(path) - 1) :
          ~(path[k].kind = "connector" /\ path[k + 1].kind = "connector")
    /\ \A k \in 1..Len(path) : path[k].segmentIndex = k - 1
    /\ \A k \in 2..(Len(path) - 1) :
          path[k].kind = "connector" =>
            /\ path[k].coordinates[1] = Last(path[k - 1].coordinates)
            /\ Last(path[k].coordinates) = path[k + 1].coordinates[1]

\* C20: in every mission's path-segment sequence the first and last segments are line
\* segments, no two connectors are consecutive, segmentIndex values are 0, 1, 2, ... in
\* sequence order, and every connector's first coordinate equals the last coordinate of
\* the line segment before it and its last coordinate equals the first coordinate of the
\* line segment after it.
C20_PathSegmentStructure ==
  \A m \in MissionsHeld : WellFormedPath(m.pathSegments)


\* whether the path has a connector
HasConnector(path) == \E k \in 1..Len(path) : path[k].kind = "connector"

\* whether the path has two line segments in a row, the connector between them left out
HasGap(path) ==
  \E k \in 1..(Len(path) - 1) : path[k].kind = "line" /\ path[k + 1].kind = "line"

\* a mission of the loop whose path joins three or more lines by connectors, and a
\* packed mission of two strips whose path has a connector
C20_Witness ==
  /\ \E i \in 1..Len(missions) :
        /\ Len(missions[i].pathSegments) >= 5
        /\ HasConnector(missions[i].pathSegments)
  /\ \E i \in 1..Len(packed) :
        /\ \E a, b \in 1..Len(packed[i].flightLines) :
              packed[i].flightLines[a].id[1] # packed[i].flightLines[b].id[1]
        /\ HasConnector(packed[i].pathSegments)


\* the cap on the gap a connector may span in the path of mission m: max(3 x the mean
\* distance between the first points of consecutive lines in the order flown, 50 m)
ConnectorCap(m) ==
  LET order == OrderFlown(m)
  IN connectorMaxGapOf(Tuple([j \in 1..Len(order) |->
                                m.flightLines[order[j].index].coordinates]),
                       MinGapOptimized)

\* the line segment that follows the line segment at position k of the path
NextLineSegment(path, k) ==
  IF path[k + 1].kind = "connector" THEN path[k + 2] ELSE path[k + 1]

\* whether each pair of consecutive line segments of the path of m is joined by a
\* connector exactly when the gap between them is within the cap
ConnectedWithinCap(m, cap) ==
  \A k \in 1..(Len(m.pathSegments) - 1) :
    m.pathSegments[k].kind = "line" =>
      (m.pathSegments[k + 1].kind = "connector"
         <=> calculateDistance(Last(m.pathSegments[k].coordinates),
                               NextLineSegment(m.pathSegments, k).coordinates[1]) <= cap)

\* C21: in every mission path of the returned plan a connector is present between two
\* consecutive line segments if and only if the direct gap between the end of the first
\* and the start of the second is at most max(3 x average inter-line spacing, 50 m), for
\* every path builder, the one used for merged missions included.
C21_ConnectorIffWithinCap ==
  plan # << >> =>
    \A i \in 1..Len(plan[1].missions) :
      ConnectedWithinCap(plan[1].missions[i], ConnectorCap(plan[1].missions[i]))


\* the size of the heading change from h1 to h2 once brought into [-180, 180]
AbsHeadingDelta(h1, h2) ==
  LET turns == {Abs(h2 - h1 + 360 * k) : k \in -2..2}
  IN CHOOSE d \in turns : \A e \in turns : d <= e

\* the waypoints of a turn strictly between its first and last
Intermediate(waypoints) == {waypoints[k] : k \in 2..(Len(waypoints) - 1)}

LoopMadeNoMission == \A k \in 1..Len(stripLog) : stripLog[k].kind # "mission"

\* the raw lines of the whole AOI for the current heading
WholeAOILines ==
  generateFlightLinesClippedByAOI(missionData.polygon, missionData.polygon,
                                  candidateHeadings[hIdx], lineSpacing)

\* C23: when the strip loop produces zero missions for a heading,
\* partitionAOIIntoPolygonMissions returns an empty list only if flight-line generation
\* over the whole AOI also yields no lines, and otherwise returns exactly one mission
\* holding those lines.
C23_FallbackMission ==
  (pc = "select" /\ LoopMadeNoMission) =>
    IF Len(WholeAOILines) = 0 THEN chained = << >>
    ELSE /\ Len(chained) = 1
         /\ Tuple([l \in 1..Len(chained[1].flightLines) |->
                     chained[1].flightLines[l].coordinates]) = WholeAOILines

\* the partitioning returned the fallback mission of two or more lines after a strip
\* loop that ran and pushed no mission
C23_Witness ==
  /\ pc = "select"
  /\ Len(stripLog) > 0
  /\ LoopMadeNoMission
  /\ Len(chained) = 1
  /\ Len(chained[1].flightLines) >= 2


\* whether the lines and the path segments of mission m carry the index of m, and each
\* line its position in m
IndicesOwnedBy(m) ==
  /\ \A l \in 1..Len(m.flightLines) :
        /\ m.flightLines[l].missionIndex = m.index
        /\ m.flightLines[l].lineIndex = l - 1
  /\ \A k \in 1..Len(m.pathSegments) : m.pathSegments[k].missionIndex = m.index

\* C24: in the returned plan every flight line's missionIndex, and every path segment's
\* missionIndex, equals the index of the mission that owns it, and lineIndex gives the
\* line's position within that mission, also after strips are skipped, after missions
\* are merged and re-indexed by packMissionsByBattery, and after chaining.
C24_IndicesMatchOwner ==
  plan # << >> => \A i \in 1..Len(plan[1].missions) : IndicesOwnedBy(plan[1].missions[i])


\* C25: if at least one candidate heading yields a non-empty mission list,
\* generateFlightPlan returns a non-empty plan: a candidate that produced zero missions
\* (total time 0) is never preferred over a candidate that produced missions.
C25_EmptyCandidateNotPreferred ==
  (plan # << >> /\ \E k \in 1..Len(evaluated) : Len(evaluated[k].missions) > 0) =>
    Len(plan[1].missions) > 0


\* C26: in every plan returned by generateFlightPlan every connector segment has exactly
\* two coordinates, a straight link from the end of a line to the start of the next: all
\* flight lines of a mission carry the same heading value, so the U-turn arc and the
\* smooth turn are never produced, also when consecutive lines are flown in opposite
\* directions.
C26_ConnectorsAreStraight ==
  plan # << >> =>
    \A i \in 1..Len(plan[1].missions) :
      /\ \A a, b \in 1..Len(plan[1].missions[i].flightLines) :
            plan[1].missions[i].flightLines[a].heading =
              plan[1].missions[i].flightLines[b].heading
      /\ \A k \in 1..Len(plan[1].missions[i].pathSegments) :
            plan[1].missions[i].pathSegments[k].kind = "connector" =>
              Len(plan[1].missions[i].pathSegments[k].coordinates) = 2

\* a returned mission whose path has a connector between two lines flown in opposite
\* directions
C26_Witness ==
  /\ plan # << >>
  /\ \E i \in 1..Len(plan[1].missions) :
        \E k \in 2..(Len(plan[1].missions[i].pathSegments) - 1) :
           /\ plan[1].missions[i].pathSegments[k].kind = "connector"
           /\ \E a, b \in 1..Len(plan[1].missions[i].flightLines) :
                 /\ plan[1].missions[i].pathSegments[k - 1].coordinates =
                      plan[1].missions[i].flightLines[a].coordinates
                 /\ plan[1].missions[i].pathSegments[k + 1].coordinates =
                      Reverse(plan[1].missions[i].flightLines[b].coordinates)


RECURSIVE AllLines(_, _)
\* the flight lines of the first n missions, concatenated in order
AllLines(ms, n) == IF n = 0 THEN << >> ELSE AllLines(ms, n - 1) \o ms[n].flightLines

\* C28: packMissionsByBattery preserves the work: the concatenation of the flight lines
\* of its output missions, in order, equals the concatenation of the flight lines of its
\* input missions, and the sums of estimatedTime and of estimatedPhotos over the output
\* equal the sums over the input.
C28_PackPreservesWork ==
  pc = "chain" =>
    /\ AllLines(packed, Len(packed)) = AllLines(missions, Len(missions))
    /\ totalTimeOf(packed) = totalTimeOf(missions)
    /\ totalPhotosOf(packed) = totalPhotosOf(missions)

\* three or more missions were packed into fewer, of which two or more remain
C28_Witness ==
  /\ pc = "chain"
  /\ Len(missions) >= 3
  /\ Len(packed) < Len(missions)
  /\ Len(packed) >= 2


\* coverageWidth and numLines of the layout the generator called lays its raw lines by
LayoutOfCall ==
  IF lineReturn[1].generator = "generateFlightLines"
    THEN acrossLayout(CallArgs.area, CallArgs.heading, CallArgs.lineSpacing)
    ELSE clippedLayout(CallArgs.area, CallArgs.lineSpacing)

\* C29: the perpendicular distance between adjacent raw flight lines laid out by the
\* generator, coverageWidth / (numLines - 1), never exceeds the requested line spacing,
\* for every coverage width, including wide areas where the requested spacing is below
\* coverageWidth / 50 and where the line-count cap applies.
C29_SpacingWithinRequested ==
  (lineReturn # << >> /\ LayoutOfCall.numLines > 1) =>
    LayoutOfCall.coverageWidth <= CallArgs.lineSpacing * (LayoutOfCall.numLines - 1)

\* C30: on the page, a FlightPlan held was generated from the missionData held, a
\* change of missionData by a parameter change or by a KML upload having cleared the
\* plan held before, and isGenerating is false after every generate request, whether
\* generateFlightPlan returned or threw
C30_PlanIsOfHeldMissionData ==
  pc = "page" =>
    /\ isGenerating = FALSE
    /\ flightPlan # << >> =>
         /\ missionData # << >>
         /\ flightPlan[1].generatedFrom = missionData[1]

====
